---- MODULE Spec2Model ----
(***************************************************************************)
(* edutrack-manager: the five page controllers (Course Catalog, paginated  *)
(* and simplified Student Registry, paginated and simplified Enrollment    *)
(* Linker) over the Remote Data Gateway (three tables with their           *)
(* uniqueness, check and cascading foreign-key constraints).               *)
(*                                                                         *)
(* Text values are sequences of one-character strings, so that lengths,    *)
(* case folding and ILIKE patterns are computed and not assumed.  The SQL  *)
(* NULL / JS null is the one-element sequence Null, which is no text.      *)
(***************************************************************************)
EXTENDS Integers, Sequences, FiniteSets, TLC

\* ------------------------------------------------------------------ bounds
NumClients == 2
MaxRows == 11
ManyRows == 31
MaxInflight == 2
MaxWrites == 1
FormWrites == 1
CrudWrites == 1
EnrWrites == 2
FilterWrites == 1
MaxFiltered == 3
OptWrites == 1
LastPageWrites == 1
ResubmitWrites == 2
MaxResubmit == 2
MergeWrites == 2
DashWrites == 1
PolicyWrites == 2
MaxEdits == 2
MaxFill == 4
MaxPick == 1

\* ------------------------------------------------------- program constants
ITEMS_PER_PAGE == 10

Clients == 1..NumClients

\* ---------------------------------------------------------------- text
Null == <<"NULL">>

Rep(ch, n) == [i \in 1..n |-> ch]

Txt(s) == s # Null

\* String.prototype.toLowerCase / the case folding of ILIKE, on one character.
Lower(ch) ==
  CASE ch = "A" -> "a"
    [] ch = "B" -> "b"
    [] ch = "C" -> "c"
    [] ch = "S" -> "s"
    [] OTHER -> ch

LowerText(s) == [i \in 1..Len(s) |-> Lower(s[i])]

\* JS `x || null` on a string: the empty string is falsy.
OrNull(s) == IF s = <<>> THEN Null ELSE s

\* JS `x || ''` on a string or null.
OrEmpty(s) == IF s = Null THEN <<>> ELSE s

\* PostgreSQL LIKE on folded text: % is any run of characters, _ is any one.
RECURSIVE LikeMatch(_, _)
LikeMatch(p, t) ==
  IF p = <<>> THEN t = <<>>
  ELSE IF Head(p) = "%"
       THEN LikeMatch(Tail(p), t) \/ (t # <<>> /\ LikeMatch(p, Tail(t)))
       ELSE /\ t # <<>>
            /\ (Head(p) = "_" \/ Lower(Head(p)) = Lower(Head(t)))
            /\ LikeMatch(Tail(p), Tail(t))

\* column ILIKE '%term%': the term is interpolated into the pattern as it is;
\* a NULL column matches nothing.
ILike(col, term) == Txt(col) /\ LikeMatch(<<"%">> \o term \o <<"%">>, col)

\* String.prototype.includes after toLowerCase on both sides.
Includes(t, s) ==
  \E i \in 0..(Len(t) - Len(s)) :
    LowerText(SubSeq(t, i + 1, i + Len(s))) = LowerText(s)

\* ------------------------------------------------------------- the Gateway
\* The primary keys are 1, 2, ...; the empty string of an unset selector is NoId.
NoId == 0

Err(code, message) == [code |-> code, message |-> message]
NoError == Err("", "")
IsError(e) == e # NoError

UNIQUE_VIOLATION == "23505"
FK_VIOLATION == "23503"
CHECK_VIOLATION == "23514"
BAD_DATE == "22007"

Reverse(seq) == [i \in 1..Len(seq) |-> seq[Len(seq) + 1 - i]]

\* .range(from, to) on an ordered result: positions from..to, 0-based, inclusive.
Range(seq, from, to) ==
  SubSeq(seq, from + 1, IF to + 1 < Len(seq) THEN to + 1 ELSE Len(seq))

Ids(tbl) == {tbl[i].id : i \in 1..Len(tbl)}

RowById(tbl, id) == CHOOSE r \in {tbl[i] : i \in 1..Len(tbl)} : r.id = id

\* UPDATE ... WHERE id = id: the payload's columns overwrite the row's.
Patch(row, payload) ==
  [f \in DOMAIN row |-> IF f \in DOMAIN payload THEN payload[f] ELSE row[f]]

UpdateRows(tbl, id, payload) ==
  [i \in 1..Len(tbl) |-> IF tbl[i].id = id THEN Patch(tbl[i], payload) ELSE tbl[i]]

\* DELETE ... WHERE id = id
DeleteRow(tbl, id) == SelectSeq(tbl, LAMBDA r : r.id # id)

\* CREATE TABLE public.courses: course_code UNIQUE, status CHECK.
CourseConstraint(tbl, r, self) ==
  IF r.status \notin {"active", "inactive"}
  THEN Err(CHECK_VIOLATION, "courses_status_check")
  ELSE IF \E i \in 1..Len(tbl) : tbl[i].id # self /\ tbl[i].course_code = r.course_code
       THEN Err(UNIQUE_VIOLATION, "courses_course_code_key")
       ELSE NoError

\* CREATE TABLE public.students: student_id UNIQUE, email UNIQUE, status CHECK,
\* enrollment_date DATE (the empty string is no date).
StudentConstraint(tbl, r, self) ==
  IF "enrollment_date" \in DOMAIN r /\ r.enrollment_date = <<>>
  THEN Err(BAD_DATE, "invalid input syntax for type date")
  ELSE IF r.status \notin {"active", "inactive", "graduated"}
  THEN Err(CHECK_VIOLATION, "students_status_check")
  ELSE IF \E i \in 1..Len(tbl) : tbl[i].id # self /\ tbl[i].student_id = r.student_id
  THEN Err(UNIQUE_VIOLATION, "students_student_id_key")
  ELSE IF \E i \in 1..Len(tbl) : tbl[i].id # self /\ tbl[i].email = r.email
  THEN Err(UNIQUE_VIOLATION, "students_email_key")
  ELSE NoError

\* The enrollments table without UNIQUE (student_id, course_id).
EnrollmentConstraint_NoUnique(studs, crs, tbl, r, self) ==
  IF r.status \notin {"enrolled", "completed", "dropped"}
  THEN Err(CHECK_VIOLATION, "enrollments_status_check")
  ELSE IF r.student_id \notin Ids(studs)
  THEN Err(FK_VIOLATION, "enrollments_student_id_fkey")
  ELSE IF r.course_id \notin Ids(crs)
  THEN Err(FK_VIOLATION, "enrollments_course_id_fkey")
  ELSE NoError

\* CREATE TABLE public.enrollments: status CHECK, UNIQUE (student_id, course_id),
\* both references REFERENCES their table.
EnrollmentConstraint(studs, crs, tbl, r, self) ==
  IF r.status \notin {"enrolled", "completed", "dropped"}
  THEN Err(CHECK_VIOLATION, "enrollments_status_check")
  ELSE IF \E i \in 1..Len(tbl) :
            /\ tbl[i].id # self
            /\ tbl[i].student_id = r.student_id
            /\ tbl[i].course_id = r.course_id
  THEN Err(UNIQUE_VIOLATION, "enrollments_student_id_course_id_key")
  ELSE IF r.student_id \notin Ids(studs)
  THEN Err(FK_VIOLATION, "enrollments_student_id_fkey")
  ELSE IF r.course_id \notin Ids(crs)
  THEN Err(FK_VIOLATION, "enrollments_course_id_fkey")
  ELSE NoError

\* ON DELETE CASCADE of enrollments.student_id and enrollments.course_id.
CascadeStudent(tbl, id) == SelectSeq(tbl, LAMBDA r : r.student_id # id)
CascadeCourse(tbl, id) == SelectSeq(tbl, LAMBDA r : r.course_id # id)

\* ------------------------------------------------------------------ pages
\* Which page a client has open: the Course Catalog, the paginated or the
\* simplified Student Registry, the paginated or the simplified Enrollment Linker.
Kinds == {"Courses", "Students", "StudentsSimple", "Enrollments", "EnrollmentsSimple"}
Paged(k) == k \in {"Courses", "Students", "Enrollments"}
Searchable(k) == k \in {"Courses", "Students"}
IsEnrollmentKind(k) == k \in {"Enrollments", "EnrollmentsSimple"}
IsStudentKind(k) == k \in {"Students", "StudentsSimple"}

\* new Date().toISOString().split('T')[0]
Today == <<"d">>

\* useState(formData) / resetForm of each page.
DefaultForm(k) ==
  CASE k = "Courses" ->
         [course_code |-> <<>>, title |-> <<>>, description |-> <<>>, credits |-> 3,
          department |-> <<>>, max_capacity |-> 30, status |-> "active"]
    [] k = "Students" ->
         [student_id |-> <<>>, first_name |-> <<>>, last_name |-> <<>>, email |-> <<>>,
          phone |-> <<>>, date_of_birth |-> <<>>, address |-> <<>>, status |-> "active"]
    [] k = "StudentsSimple" ->
         [student_id |-> <<>>, first_name |-> <<>>, last_name |-> <<>>, email |-> <<>>,
          enrollment_date |-> Today, status |-> "active"]
    [] OTHER ->
         [student_id |-> NoId, course_id |-> NoId, grade |-> <<>>, status |-> "enrolled"]

\* handleEdit: the draft pre-filled from the selected record.
FormFromRow(k, r) ==
  CASE k = "Courses" ->
         [course_code |-> r.course_code, title |-> r.title,
          description |-> OrEmpty(r.description), credits |-> r.credits,
          department |-> OrEmpty(r.department), max_capacity |-> r.max_capacity,
          status |-> r.status]
    [] k = "Students" ->
         [student_id |-> r.student_id, first_name |-> r.first_name,
          last_name |-> r.last_name, email |-> r.email, phone |-> OrEmpty(r.phone),
          date_of_birth |-> OrEmpty(r.date_of_birth), address |-> OrEmpty(r.address),
          status |-> r.status]
    [] k = "StudentsSimple" ->
         [student_id |-> r.student_id, first_name |-> r.first_name,
          last_name |-> r.last_name, email |-> r.email,
          enrollment_date |-> r.enrollment_date, status |-> r.status]
    [] OTHER ->
         [student_id |-> r.student_id, course_id |-> r.course_id,
          grade |-> OrEmpty(r.grade), status |-> r.status]

\* z.string().email(): one "@" with text before it and a dotted domain after it.
IsEmail(s) ==
  \E i \in 2..(Len(s) - 3) :
    /\ s[i] = "@"
    /\ \A j \in 1..Len(s) : s[j] = "@" => j = i
    /\ \E j \in (i + 2)..(Len(s) - 1) : s[j] = "."

\* zod reports the issues in the order of the schema's keys, and within a
\* key in the order of its checks; the handler shows errors[0].message.
FirstIssue(issues) ==
  IF \E i \in 1..Len(issues) : issues[i] # ""
  THEN issues[CHOOSE i \in 1..Len(issues) :
                /\ issues[i] # ""
                /\ \A j \in 1..(i - 1) : issues[j] = ""]
  ELSE ""

StringIssue(s, min, minMsg, max, maxMsg) ==
  IF Len(s) < min THEN minMsg
  ELSE IF Len(s) > max THEN maxMsg
  ELSE ""

NumberIssue(n, min, minMsg, max, maxMsg) ==
  IF n < min THEN minMsg
  ELSE IF n > max THEN maxMsg
  ELSE ""

\* courseSchema with z.number().min(1) only on credits.
courseSchema_NoCreditsMax(d) ==
  FirstIssue(<<StringIssue(d.course_code, 1, "Course code is required",
                           20, "String must contain at most 20 character(s)"),
               StringIssue(d.title, 1, "Title is required",
                           100, "String must contain at most 100 character(s)"),
               StringIssue(d.description, 0, "",
                           500, "String must contain at most 500 character(s)"),
               NumberIssue(d.credits, 1, "Number must be greater than or equal to 1",
                           d.credits, ""),
               StringIssue(d.department, 0, "",
                           50, "String must contain at most 50 character(s)"),
               NumberIssue(d.max_capacity, 1, "Number must be greater than or equal to 1",
                           500, "Number must be less than or equal to 500"),
               IF d.status \in {"active", "inactive"} THEN "" ELSE "Invalid enum value">>)

courseSchema(d) ==
  FirstIssue(<<StringIssue(d.course_code, 1, "Course code is required",
                           20, "String must contain at most 20 character(s)"),
               StringIssue(d.title, 1, "Title is required",
                           100, "String must contain at most 100 character(s)"),
               StringIssue(d.description, 0, "",
                           500, "String must contain at most 500 character(s)"),
               NumberIssue(d.credits, 1, "Number must be greater than or equal to 1",
                           12, "Number must be less than or equal to 12"),
               StringIssue(d.department, 0, "",
                           50, "String must contain at most 50 character(s)"),
               NumberIssue(d.max_capacity, 1, "Number must be greater than or equal to 1",
                           500, "Number must be less than or equal to 500"),
               IF d.status \in {"active", "inactive"} THEN "" ELSE "Invalid enum value">>)

studentSchema(d) ==
  FirstIssue(<<StringIssue(d.student_id, 1, "Student ID is required",
                           20, "String must contain at most 20 character(s)"),
               StringIssue(d.first_name, 1, "First name is required",
                           50, "String must contain at most 50 character(s)"),
               StringIssue(d.last_name, 1, "Last name is required",
                           50, "String must contain at most 50 character(s)"),
               IF IsEmail(d.email) THEN "" ELSE "Invalid email address",
               StringIssue(d.phone, 0, "",
                           20, "String must contain at most 20 character(s)"),
               StringIssue(d.address, 0, "",
                           200, "String must contain at most 200 character(s)"),
               IF d.status \in {"active", "inactive", "graduated"}
               THEN "" ELSE "Invalid enum value">>)

\* if (!formData.student_id || !formData.course_id)
enrollmentCheck(d) ==
  IF d.student_id = NoId \/ d.course_id = NoId
  THEN "Please select a student and course"
  ELSE ""

\* What the submit handler of each page checks before it writes: the message
\* it shows and returns on, or "" when it goes on to the write. The simplified
\* Student Registry's handler checks nothing.
Validate(k, d) ==
  CASE k = "Courses" -> courseSchema(d)
    [] k = "Students" -> studentSchema(d)
    [] k = "StudentsSimple" -> ""
    [] OTHER -> enrollmentCheck(d)

ValidationTitle(k) == IF IsEnrollmentKind(k) THEN "Error" ELSE "Validation Error"

\* courseData / studentData / enrollmentData / formData: the record written.
\* courseData without the `|| null`.
courseData_Raw(d) == d

courseData(d) ==
  [d EXCEPT !.description = OrNull(d.description), !.department = OrNull(d.department)]

studentData(d) ==
  [d EXCEPT !.phone = OrNull(d.phone), !.date_of_birth = OrNull(d.date_of_birth),
            !.address = OrNull(d.address)]

enrollmentData(d) ==
  [student_id |-> d.student_id, course_id |-> d.course_id,
   grade |-> OrNull(d.grade), status |-> d.status]

Payload(k, d) ==
  CASE k = "Courses" -> courseData(d)
    [] k = "Students" -> studentData(d)
    [] k = "StudentsSimple" -> d
    [] OTHER -> enrollmentData(d)

\* ------------------------------------------------------------------ state
VARIABLES
  students,     \* Gateway table public.students, oldest row first
  courses,      \* Gateway table public.courses, oldest row first
  enrollments,  \* Gateway table public.enrollments, oldest row first
  nextId,       \* the next primary key gen_random_uuid() hands out
  writesLeft,   \* how many more write requests the Gateway answers
  page,         \* per client: the page it has open
  searchTerm,   \* per client: useState('')
  currentPage,  \* per client: useState(1)
  totalCount,   \* per client: useState(0)
  rows,         \* per client: the listed records (courses / students / enrollments)
  loading,      \* per client: useState(true)
  dialogOpen,   \* per client: useState(false)
  editing,      \* per client: editingCourse / editingStudent / editingEnrollment
  formData,     \* per client: the draft
  edits,        \* per client: how many field changes the user has made so far
  toast,        \* per client: the notification its last step showed, if any
  reads,        \* per client: list reads awaiting the Gateway
  writes,       \* per client: inserts, updates and deletes awaiting the Gateway
  studentOpts,  \* per client: ids of the student selector's options
  courseOpts,   \* per client: ids of the course selector's options
  optReads,     \* per client: fetchOptions calls awaiting the Gateway
  stats,        \* per client: the Dashboard's four figures
  countQueries, \* per client: the Dashboard's four count queries and their results
  answer        \* what the Gateway answered the last direct caller

gateway == <<students, courses, enrollments, nextId, writesLeft>>
listView == <<searchTerm, currentPage, totalCount, rows, loading>>
form == <<dialogOpen, editing, formData, edits>>
options == <<studentOpts, courseOpts, optReads>>
aside == <<stats, countQueries, answer>>
vars == <<students, courses, enrollments, nextId, writesLeft, page, searchTerm, currentPage,
          totalCount, rows, loading, dialogOpen, editing, formData, edits, toast,
          reads, writes, studentOpts, courseOpts, optReads, stats, countQueries, answer>>

NoRow == [id |-> NoId]
NoToast == [title |-> "", description |-> ""]
Toast(title, description) == [title |-> title, description |-> description]

\* ---------------------------------------------------------------- queries
\* The .or(...ilike...) filter of fetchCourses / fetchStudents; the Enrollment
\* Linker's read has no filter.
Matches(k, r, term) ==
  CASE k = "Courses" ->
         \/ term = <<>>
         \/ ILike(r.course_code, term)
         \/ ILike(r.title, term)
         \/ ILike(r.department, term)
    [] k = "Students" ->
         \/ term = <<>>
         \/ ILike(r.first_name, term)
         \/ ILike(r.last_name, term)
         \/ ILike(r.email, term)
         \/ ILike(r.student_id, term)
    [] OTHER -> TRUE

TableOf(k) ==
  CASE k = "Courses" -> courses
    [] IsStudentKind(k) -> students
    [] OTHER -> enrollments

\* ListQuery without .order('created_at', { ascending: false }).
ListQuery_OldestFirst(k, tbl, pg, term) ==
  LET matching == SelectSeq(tbl, LAMBDA r : Matches(k, r, term))
      from == (pg - 1) * ITEMS_PER_PAGE
      to == from + ITEMS_PER_PAGE - 1
  IN [data |-> IF Paged(k) THEN Range(matching, from, to) ELSE matching,
      count |-> Len(matching)]

\* The list read of page k for (pg, term): newest first, the filter, then the range
\* (paginated pages only), with the exact count of the filtered rows.
ListQuery(k, tbl, pg, term) ==
  LET matching == SelectSeq(Reverse(tbl), LAMBDA r : Matches(k, r, term))
      from == (pg - 1) * ITEMS_PER_PAGE
      to == from + ITEMS_PER_PAGE - 1
  IN [data |-> IF Paged(k) THEN Range(matching, from, to) ELSE matching,
      count |-> Len(matching)]

\* Math.ceil(totalCount / ITEMS_PER_PAGE)
TotalPages(n) == (n + ITEMS_PER_PAGE - 1) \div ITEMS_PER_PAGE

ActiveIds(tbl) == {tbl[i].id : i \in {j \in 1..Len(tbl) : tbl[j].status = "active"}}

\* ------------------------------------------------------- Gateway writes
WithId(data, id) ==
  [f \in DOMAIN data \cup {"id"} |-> IF f = "id" THEN id ELSE data[f]]

Constraint(k, r, self) ==
  CASE k = "Courses" -> CourseConstraint(courses, r, self)
    [] IsStudentKind(k) -> StudentConstraint(students, r, self)
    [] OTHER -> EnrollmentConstraint(students, courses, enrollments, r, self)

Outcome(e, s, c, en, n) ==
  [error |-> e, students |-> s, courses |-> c, enrollments |-> en, nextId |-> n]

Rejected(e) == Outcome(e, students, courses, enrollments, nextId)

\* The table of page k replaced by tbl.
Stored(k, tbl, n) ==
  CASE k = "Courses" -> Outcome(NoError, students, tbl, enrollments, n)
    [] IsStudentKind(k) -> Outcome(NoError, tbl, courses, enrollments, n)
    [] OTHER -> Outcome(NoError, students, courses, tbl, n)

\* .insert([data])
GatewayInsert(k, data) ==
  LET e == Constraint(k, data, NoId)
  IN IF IsError(e) THEN Rejected(e)
     ELSE Stored(k, Append(TableOf(k), WithId(data, nextId)), nextId + 1)

\* .update(data).eq('id', id): no row with that id is no error.
GatewayUpdate(k, id, data) ==
  IF id \notin Ids(TableOf(k)) THEN Rejected(NoError)
  ELSE LET e == Constraint(k, Patch(RowById(TableOf(k), id), data), id)
       IN IF IsError(e) THEN Rejected(e)
          ELSE Stored(k, UpdateRows(TableOf(k), id, data), nextId)

\* The delete without ON DELETE CASCADE.
GatewayDelete_NoCascade(k, id) ==
  CASE k = "Courses" ->
         Outcome(NoError, students, DeleteRow(courses, id),
                 enrollments, nextId)
    [] IsStudentKind(k) ->
         Outcome(NoError, DeleteRow(students, id), courses,
                 enrollments, nextId)
    [] OTHER ->
         Outcome(NoError, students, courses,
                 DeleteRow(enrollments, id), nextId)

\* .delete().eq('id', id), with the cascade to the enrollments of a deleted
\* student or course.
GatewayDelete(k, id) ==
  CASE k = "Courses" ->
         Outcome(NoError, students, DeleteRow(courses, id),
                 CascadeCourse(enrollments, id), nextId)
    [] IsStudentKind(k) ->
         Outcome(NoError, DeleteRow(students, id), courses,
                 CascadeStudent(enrollments, id), nextId)
    [] OTHER ->
         Outcome(NoError, students, courses,
                 DeleteRow(enrollments, id), nextId)

GatewayWrite(k, w) ==
  CASE w.op = "insert" -> GatewayInsert(k, w.data)
    [] w.op = "update" -> GatewayUpdate(k, w.id, w.data)
    [] OTHER -> GatewayDelete(k, w.id)

\* A request that never reaches the Gateway or whose answer is lost.
NetworkError == Err("", "Failed to fetch")

\* ------------------------------------------------------- notifications
SuccessToast(k, op) ==
  Toast("Success",
        CASE k = "Courses" /\ op = "insert" -> "Course created successfully"
          [] k = "Courses" /\ op = "update" -> "Course updated successfully"
          [] k = "Courses" /\ op = "delete" -> "Course deleted successfully"
          [] k = "Students" /\ op = "insert" -> "Student created successfully"
          [] k = "StudentsSimple" /\ op = "insert" -> "Student added successfully"
          [] IsStudentKind(k) /\ op = "update" -> "Student updated successfully"
          [] IsStudentKind(k) /\ op = "delete" -> "Student deleted successfully"
          [] IsEnrollmentKind(k) /\ op = "insert" -> "Enrollment created"
          [] IsEnrollmentKind(k) /\ op = "update" -> "Enrollment updated"
          [] OTHER -> "Enrollment deleted")

DUPLICATE_ENROLLMENT == "Student is already enrolled in this course"
DUPLICATE_STUDENT == "Student ID already exists"

\* The catch blocks alone, without the 23505 branches.
FailureToast_Generic(k, op, e) == Toast("Error", e.message)

\* The catch blocks and the 23505 branches of handleSubmit / handleDelete.
FailureToast(k, op, e) ==
  IF op = "insert" /\ e.code = UNIQUE_VIOLATION /\ IsEnrollmentKind(k)
  THEN Toast("Error", DUPLICATE_ENROLLMENT)
  ELSE IF op = "insert" /\ e.code = UNIQUE_VIOLATION /\ k = "StudentsSimple"
  THEN Toast("Error", DUPLICATE_STUDENT)
  ELSE Toast("Error", e.message)

ReadFailureToast(k, e) ==
  Toast(IF k = "StudentsSimple" THEN "Error loading students" ELSE "Error", e.message)

\* ------------------------------------------------------------------ actions
Request(pg, term) == [page |-> pg, term |-> term]

Remove(seq, i) == SubSeq(seq, 1, i - 1) \o SubSeq(seq, i + 1, Len(seq))

\* A step of client c that shows no notification.
Quiet(c) == toast' = [toast EXCEPT ![c] = NoToast]

\* resetForm
ResetForm(c) ==
  /\ formData' = [formData EXCEPT ![c] = DefaultForm(page[c])]
  /\ editing' = [editing EXCEPT ![c] = NoRow]
  /\ edits' = edits

\* SetSearchTerm without setCurrentPage(1).
SetSearchTerm_KeepsPage(c, s) ==
  /\ Searchable(page[c])
  /\ ~dialogOpen[c]
  /\ s # searchTerm[c]
  /\ Len(reads[c]) < MaxInflight
  /\ searchTerm' = [searchTerm EXCEPT ![c] = s]
  /\ loading' = [loading EXCEPT ![c] = TRUE]
  /\ reads' = [reads EXCEPT ![c] = Append(@, Request(currentPage[c], s))]
  /\ Quiet(c)
  /\ UNCHANGED <<gateway, page, aside, currentPage, totalCount, rows, form, writes,
                 options>>

\* The search input's onChange of the Course Catalog and the paginated Student
\* Registry, and the effect on [currentPage, searchTerm] that follows the render.
SetSearchTerm(c, s) ==
  /\ Searchable(page[c])
  /\ ~dialogOpen[c]
  /\ s # searchTerm[c]
  /\ Len(reads[c]) < MaxInflight
  /\ searchTerm' = [searchTerm EXCEPT ![c] = s]
  /\ currentPage' = [currentPage EXCEPT ![c] = 1]
  /\ loading' = [loading EXCEPT ![c] = TRUE]
  /\ reads' = [reads EXCEPT ![c] = Append(@, Request(1, s))]
  /\ optReads' = optReads
  /\ Quiet(c)
  /\ UNCHANGED <<gateway, page, aside, totalCount, rows, form, writes,
                 studentOpts, courseOpts>>

\* The effect of a changed currentPage: fetch the list (and, in the paginated
\* Enrollment Linker, the options).
GoToPage(c, p) ==
  /\ currentPage' = [currentPage EXCEPT ![c] = p]
  /\ IF p # currentPage[c]
     THEN /\ Len(reads[c]) < MaxInflight
          /\ loading' = [loading EXCEPT ![c] = TRUE]
          /\ reads' = [reads EXCEPT ![c] = Append(@, Request(p, searchTerm[c]))]
          /\ IF IsEnrollmentKind(page[c])
             THEN /\ optReads[c] < MaxInflight
                  /\ optReads' = [optReads EXCEPT ![c] = @ + 1]
             ELSE optReads' = optReads
     ELSE UNCHANGED <<loading, reads, optReads>>
  /\ Quiet(c)
  /\ UNCHANGED <<gateway, page, aside, searchTerm, totalCount, rows, form, writes,
                 studentOpts, courseOpts>>

\* The pagination controls, rendered when totalPages > 1.
PrevPage(c) ==
  /\ Paged(page[c])
  /\ ~dialogOpen[c]
  /\ TotalPages(totalCount[c]) > 1
  /\ currentPage[c] # 1
  /\ GoToPage(c, IF currentPage[c] - 1 > 1 THEN currentPage[c] - 1 ELSE 1)

NextPage(c) ==
  /\ Paged(page[c])
  /\ ~dialogOpen[c]
  /\ TotalPages(totalCount[c]) > 1
  /\ currentPage[c] # TotalPages(totalCount[c])
  /\ GoToPage(c, IF currentPage[c] + 1 < TotalPages(totalCount[c])
                 THEN currentPage[c] + 1 ELSE TotalPages(totalCount[c]))

\* The dialog trigger: onOpenChange(true).
OpenDialog(c) ==
  /\ page[c] \in Kinds
  /\ ~dialogOpen[c]
  /\ dialogOpen' = [dialogOpen EXCEPT ![c] = TRUE]
  /\ Quiet(c)
  /\ UNCHANGED <<gateway, page, aside, listView, editing, formData, edits, reads,
                 writes, options>>

\* onOpenChange(false) and the Cancel button.
CloseDialog(c) ==
  /\ dialogOpen[c]
  /\ dialogOpen' = [dialogOpen EXCEPT ![c] = FALSE]
  /\ ResetForm(c)
  /\ Quiet(c)
  /\ UNCHANGED <<gateway, page, aside, listView, reads, writes, options>>

\* handleEdit on a listed record.
HandleEdit(c, i) ==
  /\ page[c] \in Kinds
  /\ ~loading[c]
  /\ ~dialogOpen[c]
  /\ i \in 1..Len(rows[c])
  /\ editing' = [editing EXCEPT ![c] = rows[c][i]]
  /\ formData' = [formData EXCEPT ![c] = FormFromRow(page[c], rows[c][i])]
  /\ edits' = edits
  /\ dialogOpen' = [dialogOpen EXCEPT ![c] = TRUE]
  /\ Quiet(c)
  /\ UNCHANGED <<gateway, page, aside, listView, reads, writes, options>>

\* The form with selectors that stay enabled while a record is being edited.
SetField_Unlocked(c, f, v, budget) ==
  /\ dialogOpen[c]
  /\ edits[c] < budget
  /\ f \in DOMAIN formData[c]
  /\ v # formData[c][f]
  /\ (IsEnrollmentKind(page[c]) /\ f = "student_id") => v \in studentOpts[c]
  /\ (IsEnrollmentKind(page[c]) /\ f = "course_id") => v \in courseOpts[c]
  /\ formData' = [formData EXCEPT ![c][f] = v]
  /\ edits' = [edits EXCEPT ![c] = @ + 1]
  /\ Quiet(c)
  /\ UNCHANGED <<gateway, page, aside, listView, dialogOpen, editing, reads, writes,
                 options>>

\* An input's or selector's onChange: setFormData({ ...formData, f: v }). The
\* student and course selectors are disabled while a record is being edited
\* and offer the fetched options.
SetField(c, f, v, budget) ==
  /\ dialogOpen[c]
  /\ edits[c] < budget
  /\ f \in DOMAIN formData[c]
  /\ v # formData[c][f]
  /\ (IsEnrollmentKind(page[c]) /\ f = "student_id")
       => (editing[c] = NoRow /\ v \in studentOpts[c])
  /\ (IsEnrollmentKind(page[c]) /\ f = "course_id")
       => (editing[c] = NoRow /\ v \in courseOpts[c])
  /\ formData' = [formData EXCEPT ![c][f] = v]
  /\ edits' = [edits EXCEPT ![c] = @ + 1]
  /\ Quiet(c)
  /\ UNCHANGED <<gateway, page, aside, listView, dialogOpen, editing, reads, writes,
                 options>>

\* handleSubmit up to the await: validation, then the insert or update request
\* with the record built from the draft. The continuation that runs on the
\* response re-reads with the page and term of the render that submitted.
\* Nothing in the handler or on the submit button looks at a write already in
\* flight; cap bounds the writes in flight.
HandleSubmitUpTo(c, cap) ==
  /\ page[c] \in Kinds
  /\ dialogOpen[c]
  /\ IF Validate(page[c], formData[c]) # ""
     THEN /\ toast' = [toast EXCEPT ![c] =
                         Toast(ValidationTitle(page[c]), Validate(page[c], formData[c]))]
          /\ writes' = writes
     ELSE /\ Len(writes[c]) < cap
          /\ writes' = [writes EXCEPT ![c] =
                          Append(@, [op |-> IF editing[c] = NoRow THEN "insert" ELSE "update",
                                     id |-> editing[c].id,
                                     data |-> Payload(page[c], formData[c]),
                                     page |-> currentPage[c],
                                     term |-> searchTerm[c]])]
          /\ Quiet(c)
  /\ UNCHANGED <<gateway, page, aside, listView, form, reads, options>>

\* handleSubmit with at most MaxWrites writes of the client in flight.
HandleSubmit(c) == HandleSubmitUpTo(c, MaxWrites)

\* handleDelete without the confirm() test.
HandleDelete_NoConfirm(c, i, confirmed) ==
  /\ page[c] \in Kinds
  /\ ~loading[c]
  /\ ~dialogOpen[c]
  /\ i \in 1..Len(rows[c])
  /\ Len(writes[c]) < MaxWrites
  /\ writes' = [writes EXCEPT ![c] =
                  Append(@, [op |-> "delete", id |-> rows[c][i].id, data |-> NoRow,
                             page |-> currentPage[c], term |-> searchTerm[c]])]
  /\ Quiet(c)
  /\ UNCHANGED <<gateway, page, aside, listView, form, reads, options>>

\* handleDelete up to the await: confirm(), then the delete request.
HandleDelete(c, i, confirmed) ==
  /\ page[c] \in Kinds
  /\ ~loading[c]
  /\ ~dialogOpen[c]
  /\ i \in 1..Len(rows[c])
  /\ IF confirmed
     THEN /\ Len(writes[c]) < MaxWrites
          /\ writes' = [writes EXCEPT ![c] =
                          Append(@, [op |-> "delete", id |-> rows[c][i].id, data |-> NoRow,
                                     page |-> currentPage[c], term |-> searchTerm[c]])]
     ELSE writes' = writes
  /\ Quiet(c)
  /\ UNCHANGED <<gateway, page, aside, listView, form, reads, options>>

\* fetchCourses / fetchStudents / fetchEnrollments up to the await.
IssueRead(c, pg, term) ==
  /\ loading' = [loading EXCEPT ![c] = TRUE]
  /\ reads' = [reads EXCEPT ![c] = Append(@, Request(pg, term))]

\* WriteResolve whose success branch leaves the dialog and the draft alone.
WriteResolve_KeepsDraft(c, i, lost) ==
  /\ page[c] \in Kinds
  /\ i \in 1..Len(writes[c])
  /\ LET w == writes[c][i]
         out == IF lost THEN Rejected(NetworkError) ELSE GatewayWrite(page[c], w)
     IN /\ lost \/ writesLeft > 0
        /\ writesLeft' = IF lost THEN writesLeft ELSE writesLeft - 1
        /\ students' = out.students
        /\ courses' = out.courses
        /\ enrollments' = out.enrollments
        /\ nextId' = out.nextId
        /\ writes' = [writes EXCEPT ![c] = Remove(@, i)]
        /\ IF IsError(out.error)
           THEN /\ toast' = [toast EXCEPT ![c] = FailureToast(page[c], w.op, out.error)]
                /\ UNCHANGED <<loading, reads, form>>
           ELSE /\ Len(reads[c]) < MaxInflight
                /\ toast' = [toast EXCEPT ![c] = SuccessToast(page[c], w.op)]
                /\ UNCHANGED form
                /\ IssueRead(c, w.page, w.term)
  /\ UNCHANGED <<page, aside, searchTerm, currentPage, totalCount, rows, options>>

\* WriteResolve whose error branch reads the list again.
WriteResolve_RefreshOnError(c, i, lost) ==
  /\ page[c] \in Kinds
  /\ i \in 1..Len(writes[c])
  /\ LET w == writes[c][i]
         out == IF lost THEN Rejected(NetworkError) ELSE GatewayWrite(page[c], w)
     IN /\ lost \/ writesLeft > 0
        /\ writesLeft' = IF lost THEN writesLeft ELSE writesLeft - 1
        /\ students' = out.students
        /\ courses' = out.courses
        /\ enrollments' = out.enrollments
        /\ nextId' = out.nextId
        /\ writes' = [writes EXCEPT ![c] = Remove(@, i)]
        /\ Len(reads[c]) < MaxInflight
        /\ IF IsError(out.error)
           THEN /\ toast' = [toast EXCEPT ![c] = FailureToast(page[c], w.op, out.error)]
                /\ UNCHANGED form
           ELSE /\ toast' = [toast EXCEPT ![c] = SuccessToast(page[c], w.op)]
                /\ IF w.op = "delete"
                   THEN UNCHANGED form
                   ELSE /\ dialogOpen' = [dialogOpen EXCEPT ![c] = FALSE]
                        /\ ResetForm(c)
        /\ IssueRead(c, w.page, w.term)
  /\ UNCHANGED <<page, aside, searchTerm, currentPage, totalCount, rows, options>>

\* The Gateway applies write i of client c (or the request fails on the way) and
\* the handler resumes: on success the notification, for a create or an update
\* setDialogOpen(false) and resetForm(), and the list read; on an error the
\* notification only.
WriteResolve(c, i, lost) ==
  /\ page[c] \in Kinds
  /\ i \in 1..Len(writes[c])
  /\ LET w == writes[c][i]
         out == IF lost THEN Rejected(NetworkError) ELSE GatewayWrite(page[c], w)
     IN /\ lost \/ writesLeft > 0
        /\ writesLeft' = IF lost THEN writesLeft ELSE writesLeft - 1
        /\ students' = out.students
        /\ courses' = out.courses
        /\ enrollments' = out.enrollments
        /\ nextId' = out.nextId
        /\ writes' = [writes EXCEPT ![c] = Remove(@, i)]
        /\ IF IsError(out.error)
           THEN /\ toast' = [toast EXCEPT ![c] = FailureToast(page[c], w.op, out.error)]
                /\ UNCHANGED <<loading, reads, form>>
           ELSE /\ Len(reads[c]) < MaxInflight
                /\ toast' = [toast EXCEPT ![c] = SuccessToast(page[c], w.op)]
                /\ IF w.op = "delete"
                   THEN UNCHANGED form
                   ELSE /\ dialogOpen' = [dialogOpen EXCEPT ![c] = FALSE]
                        /\ ResetForm(c)
                /\ IssueRead(c, w.page, w.term)
  /\ UNCHANGED <<page, aside, searchTerm, currentPage, totalCount, rows, options>>

\* A list read whose catch block clears the list.
ReadResolve_ClearsList(c, i, lost) ==
  /\ page[c] \in Kinds
  /\ i \in 1..Len(reads[c])
  /\ LET r == reads[c][i]
         res == ListQuery(page[c], TableOf(page[c]), r.page, r.term)
     IN IF lost
        THEN /\ toast' = [toast EXCEPT ![c] = ReadFailureToast(page[c], NetworkError)]
             /\ rows' = [rows EXCEPT ![c] = <<>>]
             /\ totalCount' = [totalCount EXCEPT ![c] = 0]
        ELSE /\ rows' = [rows EXCEPT ![c] = res.data]
             /\ totalCount' = [totalCount EXCEPT ![c] =
                                 IF Paged(page[c]) THEN res.count ELSE @]
             /\ Quiet(c)
  /\ reads' = [reads EXCEPT ![c] = Remove(@, i)]
  /\ loading' = [loading EXCEPT ![c] = FALSE]
  /\ UNCHANGED <<gateway, page, aside, searchTerm, currentPage, form, writes, options>>

\* A list read that applies its result only when it is the read for the page
\* and term now current.
ReadResolve_LatestOnly(c, i, lost) ==
  /\ page[c] \in Kinds
  /\ i \in 1..Len(reads[c])
  /\ LET r == reads[c][i]
         res == ListQuery(page[c], TableOf(page[c]), r.page, r.term)
     IN IF lost
        THEN /\ toast' = [toast EXCEPT ![c] = ReadFailureToast(page[c], NetworkError)]
             /\ UNCHANGED <<rows, totalCount>>
        ELSE /\ rows' = [rows EXCEPT ![c] =
                           IF r = Request(currentPage[c], searchTerm[c]) THEN res.data ELSE @]
             /\ totalCount' = [totalCount EXCEPT ![c] =
                                 IF Paged(page[c]) /\ r = Request(currentPage[c], searchTerm[c])
                                 THEN res.count ELSE @]
             /\ Quiet(c)
  /\ reads' = [reads EXCEPT ![c] = Remove(@, i)]
  /\ loading' = [loading EXCEPT ![c] = FALSE]
  /\ UNCHANGED <<gateway, page, aside, searchTerm, currentPage, form, writes, options>>

\* List read i of client c resolves: setCourses(data || []) and
\* setTotalCount(count || 0), or the error notification; then setLoading(false).
ReadResolve(c, i, lost) ==
  /\ page[c] \in Kinds
  /\ i \in 1..Len(reads[c])
  /\ LET r == reads[c][i]
         res == ListQuery(page[c], TableOf(page[c]), r.page, r.term)
     IN IF lost
        THEN /\ toast' = [toast EXCEPT ![c] = ReadFailureToast(page[c], NetworkError)]
             /\ UNCHANGED <<rows, totalCount>>
        ELSE /\ rows' = [rows EXCEPT ![c] = res.data]
             /\ totalCount' = [totalCount EXCEPT ![c] =
                                 IF Paged(page[c]) THEN res.count ELSE @]
             /\ Quiet(c)
  /\ reads' = [reads EXCEPT ![c] = Remove(@, i)]
  /\ loading' = [loading EXCEPT ![c] = FALSE]
  /\ UNCHANGED <<gateway, page, aside, searchTerm, currentPage, form, writes, options>>

\* fetchOptions without .eq('status', 'active').
OptionsResolve_AllRecords(c, studentsOk, coursesOk) ==
  /\ IsEnrollmentKind(page[c])
  /\ optReads[c] > 0
  /\ optReads' = [optReads EXCEPT ![c] = @ - 1]
  /\ studentOpts' = [studentOpts EXCEPT ![c] =
                       IF studentsOk THEN Ids(students) ELSE @]
  /\ courseOpts' = [courseOpts EXCEPT ![c] =
                      IF coursesOk THEN Ids(courses) ELSE @]
  /\ Quiet(c)
  /\ UNCHANGED <<gateway, page, aside, listView, form, reads, writes>>

\* fetchOptions resolves: each of its two reads sets its list when it has data.
OptionsResolve(c, studentsOk, coursesOk) ==
  /\ IsEnrollmentKind(page[c])
  /\ optReads[c] > 0
  /\ optReads' = [optReads EXCEPT ![c] = @ - 1]
  /\ studentOpts' = [studentOpts EXCEPT ![c] =
                       IF studentsOk THEN ActiveIds(students) ELSE @]
  /\ courseOpts' = [courseOpts EXCEPT ![c] =
                      IF coursesOk THEN ActiveIds(courses) ELSE @]
  /\ Quiet(c)
  /\ UNCHANGED <<gateway, page, aside, listView, form, reads, writes>>

\* ---------------------------------- the simplified Student Registry's filter
\* String.prototype.includes without the toLowerCase() calls.
IncludesExact(t, s) ==
  \E i \in 0..(Len(t) - Len(s)) : SubSeq(t, i + 1, i + Len(s)) = s

\* filteredStudents with a case-sensitive test.
filteredStudents_CaseSensitive(rs, term) ==
  SelectSeq(rs, LAMBDA student :
    \/ IncludesExact(student.first_name, term)
    \/ IncludesExact(student.last_name, term)
    \/ IncludesExact(student.student_id, term)
    \/ IncludesExact(student.email, term))

\* students.filter(...) of the render: the fetched students rs whose first
\* name, last name, student code or e-mail includes the term, both lowered.
filteredStudents(rs, term) ==
  SelectSeq(rs, LAMBDA student :
    \/ Includes(student.first_name, term)
    \/ Includes(student.last_name, term)
    \/ Includes(student.student_id, term)
    \/ Includes(student.email, term))

\* The search input's onChange of the simplified Student Registry:
\* setSearchTerm(e.target.value); no effect depends on the term.
SetFilter(c, s) ==
  /\ page[c] = "StudentsSimple"
  /\ ~dialogOpen[c]
  /\ s # searchTerm[c]
  /\ searchTerm' = [searchTerm EXCEPT ![c] = s]
  /\ Quiet(c)
  /\ UNCHANGED <<gateway, page, aside, currentPage, totalCount, rows, loading, form,
                 reads, writes, options>>

\* The delete button of a row the table shows.
DeleteListed(c, i) ==
  /\ page[c] = "StudentsSimple"
  /\ i \in 1..Len(rows[c])
  /\ \E j \in 1..Len(filteredStudents(rows[c], searchTerm[c])) :
       filteredStudents(rows[c], searchTerm[c])[j] = rows[c][i]
  /\ HandleDelete(c, i, TRUE)

\* ------------------------------------------------- row-level security
\* auth.uid() of a request without a session, and the roles of app_role (or none).
NoUser == ""
Callers == {NoUser, "u1"}
Roles == {"none", "faculty", "admin"}

\* The three tables with row-level security, named by a page that reads them.
Tables == {"StudentsSimple", "Courses", "Enrollments"}

RLS_VIOLATION == "42501"

\* The policies the tables had at first: USING (public.is_staff(auth.uid())).
Policy_StaffOnly(cmd, k, uid, role) == uid # NoUser /\ role \in {"faculty", "admin"}

\* The simplified policies: for every command on every table,
\* USING / WITH CHECK (auth.uid() IS NOT NULL).
Policy(cmd, k, uid, role) == uid # NoUser

Answer(uid, role, cmd, e, n) ==
  [uid |-> uid, role |-> role, cmd |-> cmd, error |-> e, visible |-> n]

Apply(out) ==
  /\ students' = out.students
  /\ courses' = out.courses
  /\ enrollments' = out.enrollments
  /\ nextId' = out.nextId

\* A select sent straight to the Gateway: the rows the policy lets through.
CallSelect(uid, role, k) ==
  /\ answer' = Answer(uid, role, "select", NoError,
                      IF Policy("select", k, uid, role) THEN Len(TableOf(k)) ELSE 0)
  /\ UNCHANGED <<gateway, page, listView, form, toast, reads, writes, options,
                 stats, countQueries>>

\* An insert sent straight to the Gateway: the WITH CHECK, then the table's
\* constraints.
CallInsert(uid, role, k, data) ==
  /\ writesLeft > 0
  /\ IF Policy("insert", k, uid, role)
     THEN /\ Apply(GatewayInsert(k, data))
          /\ writesLeft' = writesLeft - 1
          /\ answer' = Answer(uid, role, "insert", GatewayInsert(k, data).error,
                              IF IsError(GatewayInsert(k, data).error) THEN 0 ELSE 1)
     ELSE /\ UNCHANGED gateway
          /\ answer' = Answer(uid, role, "insert",
                              Err(RLS_VIOLATION, "new row violates row-level security policy"),
                              0)
  /\ UNCHANGED <<page, listView, form, toast, reads, writes, options, stats, countQueries>>

\* An update or a delete by key sent straight to the Gateway: the USING
\* clause hides the row from a caller it does not let through.
CallUpdate(uid, role, k, id, data) ==
  /\ writesLeft > 0
  /\ IF Policy("update", k, uid, role)
     THEN /\ Apply(GatewayUpdate(k, id, data))
          /\ writesLeft' = writesLeft - 1
          /\ answer' = Answer(uid, role, "update", GatewayUpdate(k, id, data).error,
                              IF id \in Ids(TableOf(k))
                                 /\ ~IsError(GatewayUpdate(k, id, data).error)
                              THEN 1 ELSE 0)
     ELSE /\ UNCHANGED gateway
          /\ answer' = Answer(uid, role, "update", NoError, 0)
  /\ UNCHANGED <<page, listView, form, toast, reads, writes, options, stats, countQueries>>

CallDelete(uid, role, k, id) ==
  /\ writesLeft > 0
  /\ IF Policy("delete", k, uid, role)
     THEN /\ Apply(GatewayDelete(k, id))
          /\ writesLeft' = writesLeft - 1
          /\ answer' = Answer(uid, role, "delete", NoError,
                              IF id \in Ids(TableOf(k)) THEN 1 ELSE 0)
     ELSE /\ UNCHANGED gateway
          /\ answer' = Answer(uid, role, "delete", NoError, 0)
  /\ UNCHANGED <<page, listView, form, toast, reads, writes, options, stats, countQueries>>

\* ---------------------------------------------------------- the Dashboard
\* The four count queries of fetchStats, in the order of the Promise.all array.
CountNames == <<"totalStudents", "activeStudents", "totalCourses", "totalEnrollments">>
Queries == {CountNames[n] : n \in 1..Len(CountNames)}

\* A query not yet sent, in flight, or resolved with its count (<<n>>, or <<>>
\* for the null count of a failed request).
Idle == [state |-> "idle", count |-> <<>>]
InFlight == [state |-> "pending", count |-> <<>>]
Resolved(count) == [state |-> "done", count |-> count]

NoStats == [q \in Queries |-> 0]

\* select('id', { count: 'exact', head: true }), with .eq('status', 'active')
\* for the active students.
CountOf(q) ==
  CASE q = "totalStudents" -> Len(students)
    [] q = "activeStudents" -> Cardinality(ActiveIds(students))
    [] q = "totalCourses" -> Len(courses)
    [] OTHER -> Len(enrollments)

\* res.count || 0
OrZero(count) == IF count = <<>> THEN 0 ELSE count[1]

\* useEffect(() => { fetchStats() }, []): the four queries are sent together.
FetchStats(c) ==
  /\ page[c] = "Dashboard"
  /\ \A q \in Queries : countQueries[c][q] = Idle
  /\ countQueries' = [countQueries EXCEPT ![c] = [q \in Queries |-> InFlight]]
  /\ UNCHANGED <<gateway, page, listView, form, toast, reads, writes, options,
                 stats, answer>>

\* A request whose answer is put into its figure as it arrives.
CountResolve_Eager(c, q, ok) ==
  /\ page[c] = "Dashboard"
  /\ q \in Queries
  /\ countQueries[c][q] = InFlight
  /\ countQueries' = [countQueries EXCEPT ![c][q] =
                        Resolved(IF ok THEN <<CountOf(q)>> ELSE <<>>)]
  /\ stats' = [stats EXCEPT ![c][q] = IF ok THEN CountOf(q) ELSE 0]
  /\ UNCHANGED <<gateway, page, listView, form, toast, reads, writes, options, answer>>

\* One of the four requests resolves, with its count or, failed, without one;
\* the query promise does not reject.
CountResolve(c, q, ok) ==
  /\ page[c] = "Dashboard"
  /\ q \in Queries
  /\ countQueries[c][q] = InFlight
  /\ countQueries' = [countQueries EXCEPT ![c][q] =
                        Resolved(IF ok THEN <<CountOf(q)>> ELSE <<>>)]
  /\ UNCHANGED <<gateway, page, listView, form, toast, reads, writes, options,
                 stats, answer>>

\* fetchStats with a Promise.all that rejects as soon as one request has failed.
StatsJoin_AllOrNothing(c) ==
  /\ page[c] = "Dashboard"
  /\ loading[c]
  /\ \A q \in Queries : countQueries[c][q].state = "done"
  /\ stats' = IF \E q \in Queries : countQueries[c][q].count = <<>>
              THEN stats
              ELSE [stats EXCEPT ![c] = [q \in Queries |-> OrZero(countQueries[c][q].count)]]
  /\ loading' = [loading EXCEPT ![c] = FALSE]
  /\ UNCHANGED <<gateway, page, searchTerm, currentPage, totalCount, rows, form, toast,
                 reads, writes, options, countQueries, answer>>

\* The continuation of the await Promise.all: setStats with the four counts,
\* then setLoading(false).
StatsJoin(c) ==
  /\ page[c] = "Dashboard"
  /\ loading[c]
  /\ \A q \in Queries : countQueries[c][q].state = "done"
  /\ stats' = [stats EXCEPT ![c] = [q \in Queries |-> OrZero(countQueries[c][q].count)]]
  /\ loading' = [loading EXCEPT ![c] = FALSE]
  /\ UNCHANGED <<gateway, page, searchTerm, currentPage, totalCount, rows, form, toast,
                 reads, writes, options, countQueries, answer>>

\* ------------------------------------------------------------ initial data
Digits == <<"0", "1", "2", "3", "4", "5", "6", "7", "8", "9">>
Two(i) == <<Digits[(i \div 10) + 1], Digits[(i % 10) + 1]>>

CourseCode(i) == <<"C">> \o Two(i)
StudentCode(i) == <<"S">> \o Two(i)
EmailOf(i) == Two(i) \o <<"@", "b", ".", "c">>
GoodEmail == <<"a", "@", "b", ".", "c">>

SeedCourse(i) ==
  [id |-> i, course_code |-> CourseCode(i),
   title |-> IF i % 3 = 0 THEN <<"b">> ELSE IF i % 3 = 1 THEN <<"A", "b">> ELSE <<"a">>,
   description |-> Null, credits |-> 3,
   department |-> IF i % 2 = 0 THEN Null ELSE <<"B">>,
   max_capacity |-> 30,
   status |-> IF i % 3 = 0 THEN "inactive" ELSE "active"]

SeedStudent(i) ==
  [id |-> i, student_id |-> StudentCode(i),
   first_name |-> IF i % 2 = 0 THEN <<"A">> ELSE <<"b">>,
   last_name |-> IF i % 3 = 0 THEN <<"a", "b">> ELSE <<"B">>,
   email |-> EmailOf(i), phone |-> Null, date_of_birth |-> Null, address |-> Null,
   status |-> IF i % 3 = 0 THEN "inactive" ELSE "active"]

\* After the migration that drops the optional contact columns.
SeedStudentSimple(i) ==
  [id |-> i, student_id |-> StudentCode(i),
   first_name |-> IF i % 2 = 0 THEN <<"A">> ELSE <<"b">>,
   last_name |-> IF i % 3 = 0 THEN <<"a", "b">> ELSE <<"B">>,
   email |-> EmailOf(i), enrollment_date |-> Today,
   status |-> IF i % 3 = 0 THEN "inactive" ELSE "active"]

SeedEnrollment(i, s, c) ==
  [id |-> i, student_id |-> s, course_id |-> c, grade |-> Null, status |-> "enrolled"]

\* No Dashboard query has been sent and no direct call has been answered.
NoAnswer == [uid |-> "", role |-> "none", cmd |-> "", error |-> NoError, visible |-> 0]

InitAside ==
  /\ stats = [c \in Clients |-> NoStats]
  /\ countQueries = [c \in Clients |-> [q \in Queries |-> Idle]]
  /\ answer = NoAnswer

\* The state of every client right after its page has mounted: the useState
\* initial values, and the mount effect's list read (and options read) in flight.
InitClients ==
  /\ searchTerm = [c \in Clients |-> <<>>]
  /\ currentPage = [c \in Clients |-> 1]
  /\ totalCount = [c \in Clients |-> 0]
  /\ rows = [c \in Clients |-> <<>>]
  /\ loading = [c \in Clients |-> page[c] \in Kinds \cup {"Dashboard"}]
  /\ dialogOpen = [c \in Clients |-> FALSE]
  /\ editing = [c \in Clients |-> NoRow]
  /\ formData = [c \in Clients |-> DefaultForm(page[c])]
  /\ edits = [c \in Clients |-> 0]
  /\ toast = [c \in Clients |-> NoToast]
  /\ reads = [c \in Clients |-> IF page[c] \in Kinds THEN <<Request(1, <<>>)>> ELSE <<>>]
  /\ writes = [c \in Clients |-> <<>>]
  /\ studentOpts = [c \in Clients |-> {}]
  /\ courseOpts = [c \in Clients |-> {}]
  /\ optReads = [c \in Clients |-> IF IsEnrollmentKind(page[c]) THEN 1 ELSE 0]
  /\ InitAside

\* Tables of ns students, nc courses and the given enrollments; fresh keys
\* start above every seeded key, and the Gateway answers quota writes.
InitGateway(ns, nc, enr, simple, quota) ==
  /\ students = [i \in 1..ns |-> IF simple THEN SeedStudentSimple(i) ELSE SeedStudent(i)]
  /\ courses = [i \in 1..nc |-> SeedCourse(i)]
  /\ enrollments = enr
  /\ nextId = MaxRows + 1
  /\ writesLeft = quota

\* ------------------------------------------------------------------ inputs
Terms == {<<>>, <<"a">>, <<"1">>, <<"_">>, <<"z">>}

\* What the user types into the form when only a listable record is wanted:
\* the required fields.
ListValues(k, f) ==
  CASE k = "Courses" /\ f = "course_code" -> {<<"a">>}
    [] k = "Courses" /\ f = "title" -> {<<"b">>}
    [] k = "Students" /\ f = "student_id" -> {<<"a">>}
    [] k = "Students" /\ f = "first_name" -> {<<"a">>}
    [] k = "Students" /\ f = "last_name" -> {<<"b">>}
    [] k = "Students" /\ f = "email" -> {GoodEmail}
    [] OTHER -> {}

Fields == {"course_code", "title", "description", "credits", "department",
           "max_capacity", "status", "student_id", "first_name", "last_name", "email",
           "phone", "date_of_birth", "address", "enrollment_date", "course_id", "grade"}

\* ------------------------------------- search and pagination (one client)
InitSearch ==
  /\ \E k \in {"Courses", "Students"} :
       page = [c \in Clients |-> IF c = 1 THEN k ELSE "None"]
  /\ \E n \in {0, 1, ITEMS_PER_PAGE, MaxRows} :
       InitGateway(IF page[1] = "Students" THEN n ELSE 0,
                   IF page[1] = "Courses" THEN n ELSE 0, <<>>, FALSE, 0)
  /\ InitClients

NextSearch ==
  \E c \in Clients :
    \/ \E s \in Terms : SetSearchTerm(c, s)
    \/ PrevPage(c)
    \/ NextPage(c)
    \/ \E i \in 1..MaxInflight : \E lost \in BOOLEAN : ReadResolve(c, i, lost)

SpecSearch == InitSearch /\ [][NextSearch]_vars

\* ------------------------------------------------------------------ forms
\* What the user types into or picks in the form's inputs.
FormValues(k, f) ==
  CASE k = "Courses" /\ f = "course_code" -> {<<>>, <<"a">>, CourseCode(1), Rep("a", 21)}
    [] k = "Courses" /\ f = "title" -> {<<>>, <<"b">>, Rep("b", 101)}
    [] k = "Courses" /\ f = "description" -> {<<>>, <<"A">>, Rep("a", 501)}
    [] k = "Courses" /\ f = "credits" -> {-1, 3, 13}
    [] k = "Courses" /\ f = "department" -> {<<>>, <<"b">>, Rep("b", 51)}
    [] k = "Courses" /\ f = "max_capacity" -> {-1, 30, 501}
    [] k = "Courses" /\ f = "status" -> {"active", "inactive"}
    [] k = "Students" /\ f = "student_id" -> {<<>>, <<"a">>, Rep("a", 21)}
    [] k = "Students" /\ f = "first_name" -> {<<>>, <<"a">>, Rep("a", 51)}
    [] k = "Students" /\ f = "last_name" -> {<<>>, <<"b">>, Rep("b", 51)}
    [] k = "Students" /\ f = "email" -> {<<>>, GoodEmail, <<"a", "b">>}
    [] k = "Students" /\ f = "phone" -> {<<>>, <<"1">>, Rep("1", 21)}
    [] k = "Students" /\ f = "date_of_birth" -> {<<>>, Today}
    [] k = "Students" /\ f = "address" -> {<<>>, <<"a">>, Rep("a", 201)}
    [] k = "Students" /\ f = "status" -> {"active", "inactive", "graduated"}
    [] k = "StudentsSimple" /\ f = "student_id" -> {<<>>, <<"a">>, StudentCode(1)}
    [] k = "StudentsSimple" /\ f = "first_name" -> {<<>>, <<"a">>}
    [] k = "StudentsSimple" /\ f = "last_name" -> {<<>>, <<"b">>}
    [] k = "StudentsSimple" /\ f = "email" -> {<<>>, GoodEmail, EmailOf(1)}
    [] k = "StudentsSimple" /\ f = "enrollment_date" -> {<<>>, Today}
    [] k = "StudentsSimple" /\ f = "status" -> {"active", "inactive"}
    [] IsEnrollmentKind(k) /\ f \in {"student_id", "course_id"} -> 1..MaxRows
    [] IsEnrollmentKind(k) /\ f = "grade" -> {<<>>, <<"A">>}
    [] k = "Enrollments" /\ f = "status" -> {"enrolled", "completed", "dropped"}
    [] k = "EnrollmentsSimple" /\ f = "status" -> {"enrolled", "completed"}
    [] OTHER -> {}

\* One client on any of the five pages, over two students, two courses and the
\* enrollment of the first student in the first course.
InitForm ==
  /\ \E k \in Kinds : page = [c \in Clients |-> IF c = 1 THEN k ELSE "None"]
  /\ InitGateway(2, 2, <<SeedEnrollment(1, 1, 1)>>, page[1] # "Students", FormWrites)
  /\ InitClients

NextForm ==
  \E c \in Clients :
    \/ OpenDialog(c)
    \/ CloseDialog(c)
    \/ \E i \in 1..MaxPick : HandleEdit(c, i)
    \/ \E f \in Fields : \E v \in FormValues(page[c], f) : SetField(c, f, v, MaxEdits)
    \/ HandleSubmit(c)
    \/ \E i \in 1..MaxWrites : \E lost \in BOOLEAN : WriteResolve(c, i, lost)
    \/ \E i \in 1..MaxInflight : \E lost \in BOOLEAN : ReadResolve(c, i, lost)
    \/ \E so, co \in BOOLEAN : OptionsResolve(c, so, co)

SpecForm == InitForm /\ [][NextForm]_vars

\* ------------------------------------------ create and re-list (one client)
\* The search terms typed while records are created: none, one the created
\* record contains and one it does not.
CrudTerms == {<<>>, <<"a">>, <<"z">>}

\* One client on the Course Catalog or the paginated Student Registry, over a
\* table that fills one page or spills onto a second.
InitCrud ==
  /\ \E k \in {"Courses", "Students"} :
       page = [c \in Clients |-> IF c = 1 THEN k ELSE "None"]
  /\ \E n \in {1, MaxRows} :
       InitGateway(IF page[1] = "Students" THEN n ELSE 0,
                   IF page[1] = "Courses" THEN n ELSE 0, <<>>, FALSE, CrudWrites)
  /\ InitClients

NextCrud ==
  \E c \in Clients :
    \/ \E s \in CrudTerms : SetSearchTerm(c, s)
    \/ PrevPage(c)
    \/ NextPage(c)
    \/ OpenDialog(c)
    \/ \E f \in Fields : \E v \in ListValues(page[c], f) : SetField(c, f, v, MaxFill)
    \/ HandleSubmit(c)
    \/ \E i \in 1..MaxWrites : \E lost \in BOOLEAN : WriteResolve(c, i, lost)
    \/ \E i \in 1..MaxInflight : \E lost \in BOOLEAN : ReadResolve(c, i, lost)

SpecCrud == InitCrud /\ [][NextCrud]_vars

\* ------------------------------------ enrollments under concurrent clients
\* What the users pick in the selectors of the Enrollment Linker's form: the
\* newest student, and either course.
EnrollmentValues(k, f) ==
  CASE IsEnrollmentKind(k) /\ f = "student_id" -> {2}
    [] IsEnrollmentKind(k) /\ f = "course_id" -> {1, 2}
    [] OTHER -> {}

\* A client whose mount reads have resolved: the first page of the list is
\* shown and the selectors offer the active students and courses.
InitMounted ==
  /\ searchTerm = [c \in Clients |-> <<>>]
  /\ currentPage = [c \in Clients |-> 1]
  /\ totalCount = [c \in Clients |->
                     IF page[c] \in Kinds /\ Paged(page[c])
                     THEN ListQuery(page[c], TableOf(page[c]), 1, <<>>).count ELSE 0]
  /\ rows = [c \in Clients |->
               IF page[c] \in Kinds
               THEN ListQuery(page[c], TableOf(page[c]), 1, <<>>).data ELSE <<>>]
  /\ loading = [c \in Clients |-> page[c] = "Dashboard"]
  /\ dialogOpen = [c \in Clients |-> FALSE]
  /\ editing = [c \in Clients |-> NoRow]
  /\ formData = [c \in Clients |-> DefaultForm(page[c])]
  /\ edits = [c \in Clients |-> 0]
  /\ toast = [c \in Clients |-> NoToast]
  /\ reads = [c \in Clients |-> <<>>]
  /\ writes = [c \in Clients |-> <<>>]
  /\ studentOpts = [c \in Clients |->
                      IF IsEnrollmentKind(page[c]) THEN ActiveIds(students) ELSE {}]
  /\ courseOpts = [c \in Clients |->
                     IF IsEnrollmentKind(page[c]) THEN ActiveIds(courses) ELSE {}]
  /\ optReads = [c \in Clients |-> 0]
  /\ InitAside

\* Client 1 on the paginated Enrollment Linker, client 2 on the simplified one,
\* on the simplified Student Registry or on the Course Catalog, over two
\* students, two courses and the enrollment of the newest student in the
\* newest course.
InitEnr ==
  /\ \E k \in {"EnrollmentsSimple", "StudentsSimple", "Courses"} :
       page = [c \in Clients |->
                 IF c = 1 THEN "Enrollments" ELSE IF c = 2 THEN k ELSE "None"]
  /\ InitGateway(2, 2, <<SeedEnrollment(1, 2, 2)>>, TRUE, EnrWrites)
  /\ InitMounted

NextEnr ==
  \E c \in Clients :
    \/ OpenDialog(c)
    \/ \E i \in 1..MaxPick : HandleEdit(c, i)
    \/ \E f \in Fields : \E v \in EnrollmentValues(page[c], f) : SetField(c, f, v, MaxEdits)
    \/ HandleSubmit(c)
    \/ \E i \in 1..MaxPick : \E confirmed \in BOOLEAN : HandleDelete(c, i, confirmed)
    \/ \E i \in 1..MaxWrites : \E lost \in BOOLEAN : WriteResolve(c, i, lost)
    \/ \E i \in 1..MaxInflight : \E lost \in BOOLEAN : ReadResolve(c, i, lost)

SpecEnr == InitEnr /\ [][NextEnr]_vars

\* ------------------------------- the Dashboard beside a deleting client
\* Client 1 on the Dashboard and client 2 on the simplified Student Registry,
\* over up to two students and courses, with or without an enrollment.
InitDash ==
  /\ page = [c \in Clients |->
               IF c = 1 THEN "Dashboard" ELSE IF c = 2 THEN "StudentsSimple" ELSE "None"]
  /\ \E ns, nc \in 1..2 : \E enrolled \in BOOLEAN :
       InitGateway(ns, nc, IF enrolled THEN <<SeedEnrollment(1, 1, 1)>> ELSE <<>>,
                   TRUE, DashWrites)
  /\ InitMounted

NextDash ==
  \E c \in Clients :
    \/ FetchStats(c)
    \/ \E q \in Queries : \E ok \in BOOLEAN : CountResolve(c, q, ok)
    \/ StatsJoin(c)
    \/ \E i \in 1..MaxPick : \E confirmed \in BOOLEAN : HandleDelete(c, i, confirmed)
    \/ \E i \in 1..MaxWrites : \E lost \in BOOLEAN : WriteResolve(c, i, lost)
    \/ \E i \in 1..MaxInflight : \E lost \in BOOLEAN : ReadResolve(c, i, lost)

SpecDash == InitDash /\ [][NextDash]_vars

\* ------------------------------------------- many pages (one client)
\* The search terms typed over a long list: none, and one that a part of the
\* records matches.
PageTerms == {<<>>, <<"1">>}

\* One client on the Course Catalog or the paginated Student Registry, over a
\* table of ManyRows records; nothing is written.
InitPages ==
  /\ \E k \in {"Courses", "Students"} :
       page = [c \in Clients |-> IF c = 1 THEN k ELSE "None"]
  /\ students = [i \in 1..(IF page[1] = "Students" THEN ManyRows ELSE 0) |-> SeedStudent(i)]
  /\ courses = [i \in 1..(IF page[1] = "Courses" THEN ManyRows ELSE 0) |-> SeedCourse(i)]
  /\ enrollments = <<>>
  /\ nextId = ManyRows + 1
  /\ writesLeft = 0
  /\ InitClients

NextPages ==
  \E c \in Clients :
    \/ \E s \in PageTerms : SetSearchTerm(c, s)
    \/ PrevPage(c)
    \/ NextPage(c)
    \/ \E i \in 1..MaxInflight : \E lost \in BOOLEAN : ReadResolve(c, i, lost)

SpecPages == InitPages /\ [][NextPages]_vars

\* --------------------------------------------- direct calls to the Gateway
\* The rows a direct caller inserts and the columns it updates.
FreshRows(k) ==
  CASE k = "Courses" -> {SeedCourse(nextId)}
    [] k = "StudentsSimple" -> {SeedStudentSimple(nextId)}
    [] OTHER -> {SeedEnrollment(nextId, 1, 1), SeedEnrollment(nextId, 2, 1)}

Patches(k) ==
  IF k = "Enrollments" THEN {[status |-> "completed"]} ELSE {[status |-> "inactive"]}

\* No page is open; callers with and without a session, with any role or none,
\* call the Gateway over two students, two courses and one enrollment.
InitPolicy ==
  /\ page = [c \in Clients |-> "None"]
  /\ InitGateway(2, 2, <<SeedEnrollment(1, 1, 1)>>, TRUE, PolicyWrites)
  /\ InitMounted

NextPolicy ==
  \E uid \in Callers : \E role \in Roles : \E k \in Tables :
    \/ CallSelect(uid, role, k)
    \/ \E data \in FreshRows(k) : CallInsert(uid, role, k, data)
    \/ \E id \in 1..MaxPick + 1 : \E data \in Patches(k) : CallUpdate(uid, role, k, id, data)
    \/ \E id \in 1..MaxPick + 1 : CallDelete(uid, role, k, id)

SpecPolicy == InitPolicy /\ [][NextPolicy]_vars

\* ------------------------------ the simplified Student Registry (one client)
FilterTerms == {<<>>, <<"a">>, <<"S">>, <<"@">>, <<"_">>, <<"z">>}

\* Client 1 on the simplified Student Registry over up to three students.
InitFilter ==
  /\ page = [c \in Clients |-> IF c = 1 THEN "StudentsSimple" ELSE "None"]
  /\ \E n \in 0..MaxFiltered : InitGateway(n, 0, <<>>, TRUE, FilterWrites)
  /\ InitClients

NextFilter ==
  \E c \in Clients :
    \/ \E s \in FilterTerms : SetFilter(c, s)
    \/ \E i \in 1..MaxFiltered : DeleteListed(c, i)
    \/ \E i \in 1..MaxWrites : \E lost \in BOOLEAN : WriteResolve(c, i, lost)
    \/ \E i \in 1..MaxInflight : \E lost \in BOOLEAN : ReadResolve(c, i, lost)

SpecFilter == InitFilter /\ [][NextFilter]_vars

\* ------------------------------- option lists beside a deleting client
\* Client 1 on the paginated Enrollment Linker, mounted, over eleven students
\* each enrolled in the one course; client 2 on the Course Catalog.
InitOptions ==
  /\ page = [c \in Clients |->
               IF c = 1 THEN "Enrollments" ELSE IF c = 2 THEN "Courses" ELSE "None"]
  /\ InitGateway(MaxRows, 1, [i \in 1..MaxRows |-> SeedEnrollment(i, i, 1)], TRUE, OptWrites)
  /\ InitMounted

NextOptions ==
  \E c \in Clients :
    \/ PrevPage(c)
    \/ NextPage(c)
    \/ \E i \in 1..MaxPick : HandleDelete(c, i, TRUE)
    \/ \E i \in 1..MaxWrites : \E lost \in BOOLEAN : WriteResolve(c, i, lost)
    \/ \E i \in 1..MaxInflight : \E lost \in BOOLEAN : ReadResolve(c, i, lost)
    \/ \E so, co \in BOOLEAN : OptionsResolve(c, so, co)

SpecOptions == InitOptions /\ [][NextOptions]_vars

\* ------------------------------------- the last page emptied (one client)
\* Client 1 on a paginated page, mounted, over eleven students, eleven courses
\* and eleven enrollments: page 2 lists one record.
InitLastPage ==
  /\ \E k \in {"Courses", "Students", "Enrollments"} :
       page = [c \in Clients |-> IF c = 1 THEN k ELSE "None"]
  /\ InitGateway(MaxRows, MaxRows, [i \in 1..MaxRows |-> SeedEnrollment(i, i, i)],
                 FALSE, LastPageWrites)
  /\ InitMounted

NextLastPage ==
  \E c \in Clients :
    \/ PrevPage(c)
    \/ NextPage(c)
    \/ \E i \in 1..MaxPick : \E confirmed \in BOOLEAN : HandleDelete(c, i, confirmed)
    \/ \E i \in 1..MaxWrites : \E lost \in BOOLEAN : WriteResolve(c, i, lost)
    \/ \E i \in 1..MaxInflight : \E lost \in BOOLEAN : ReadResolve(c, i, lost)
    \/ \E so, co \in BOOLEAN : OptionsResolve(c, so, co)

SpecLastPage == InitLastPage /\ [][NextLastPage]_vars

\* ----------------------------------------- a form submitted twice (one client)
\* Client 1 on either Enrollment Linker, mounted, over two students, two
\* courses and the enrollment of the second student in the second course.
InitResubmit ==
  /\ \E k \in {"Enrollments", "EnrollmentsSimple"} :
       page = [c \in Clients |-> IF c = 1 THEN k ELSE "None"]
  /\ InitGateway(2, 2, <<SeedEnrollment(1, 2, 2)>>, TRUE, ResubmitWrites)
  /\ InitMounted

NextResubmit ==
  \E c \in Clients :
    \/ OpenDialog(c)
    \/ \E i \in 1..MaxPick : HandleEdit(c, i)
    \/ \E f \in Fields : \E v \in EnrollmentValues(page[c], f) : SetField(c, f, v, MaxEdits)
    \/ HandleSubmitUpTo(c, MaxResubmit)
    \/ \E i \in 1..MaxResubmit : \E lost \in BOOLEAN : WriteResolve(c, i, lost)
    \/ \E i \in 1..MaxInflight : \E lost \in BOOLEAN : ReadResolve(c, i, lost)

SpecResubmit == InitResubmit /\ [][NextResubmit]_vars

\* ------------------------------------- two clients editing the same record
\* What each user changes in the form: the first a name or a title, the
\* second the status.
MergeValues(c, f) ==
  CASE c = 1 /\ f = "title" -> {<<"b">>}
    [] c = 1 /\ f = "first_name" -> {<<"c">>}
    [] c = 2 /\ f = "status" -> {"inactive"}
    [] OTHER -> {}

\* Clients 1 and 2 on the same page, the Course Catalog or the simplified
\* Student Registry, mounted, over one course and one student.
InitMerge ==
  /\ \E k \in {"Courses", "StudentsSimple"} :
       page = [c \in Clients |-> IF c <= 2 THEN k ELSE "None"]
  /\ InitGateway(1, 1, <<>>, TRUE, MergeWrites)
  /\ InitMounted

NextMerge ==
  \E c \in Clients :
    \/ \E i \in 1..MaxPick : HandleEdit(c, i)
    \/ \E f \in Fields : \E v \in MergeValues(c, f) : SetField(c, f, v, MaxEdits)
    \/ HandleSubmit(c)
    \/ \E i \in 1..MaxWrites : \E lost \in BOOLEAN : WriteResolve(c, i, lost)
    \/ \E i \in 1..MaxInflight : \E lost \in BOOLEAN : ReadResolve(c, i, lost)

SpecMerge == InitMerge /\ [][NextMerge]_vars

\* ------------------------------------------------------------------ claims
\* The fields the search of page k covers.
SearchFields(k) ==
  IF k = "Courses" THEN {"course_code", "title", "department"}
  ELSE {"first_name", "last_name", "email", "student_id"}

\* Record r matches term s as the specification words it: s is empty, or some
\* search field of r contains s, case-insensitively.
ContainsTerm(k, r, s) ==
  \/ s = <<>>
  \/ \E f \in SearchFields(k) : Txt(r[f]) /\ Includes(r[f], s)

SliceOf(seq, pg) ==
  [i \in 1..(IF Len(seq) - (pg - 1) * ITEMS_PER_PAGE > ITEMS_PER_PAGE
             THEN ITEMS_PER_PAGE
             ELSE IF Len(seq) - (pg - 1) * ITEMS_PER_PAGE > 0
                  THEN Len(seq) - (pg - 1) * ITEMS_PER_PAGE ELSE 0)
     |-> seq[(pg - 1) * ITEMS_PER_PAGE + i]]

\* C4: in the paginated Student Registry and Course Catalog every change of the
\* search term sets the current page to 1 in the same step, and the list read
\* issued by that step is for page 1 with the new term.
C4_SearchResetsPage ==
  [][\A c \in Clients :
       (Searchable(page[c]) /\ searchTerm'[c] # searchTerm[c]) =>
         /\ currentPage'[c] = 1
         /\ reads'[c] = Append(reads[c], Request(1, searchTerm'[c]))]_vars

\* C4 witness: the term was changed while the view was on page 2 (the read for
\* page 2 is still in flight, followed by the read for page 1 with the new term).
C4_Witness ==
  \E c \in Clients :
    /\ Searchable(page[c])
    /\ currentPage[c] = 1
    /\ searchTerm[c] = <<"a">>
    /\ reads[c] = <<Request(2, <<>>), Request(1, <<"a">>)>>

\* C5: a resolved list read for (s, p) stores at most ITEMS_PER_PAGE rows, which are
\* positions (p-1)*10 .. (p-1)*10+9 of the records containing s in a search
\* field (all records when s is empty), newest first, and stores the size of
\* that full matching set as the total count.
C5_ReadIsSubstringSlice ==
  [][\A c \in Clients : \A i \in 1..MaxInflight :
       (Searchable(page[c]) /\ ReadResolve(c, i, FALSE)) =>
         LET r == reads[c][i]
             full == SelectSeq(Reverse(TableOf(page[c])),
                               LAMBDA x : ContainsTerm(page[c], x, r.term))
         IN /\ Len(rows'[c]) <= ITEMS_PER_PAGE
            /\ rows'[c] = SliceOf(full, r.page)
            /\ totalCount'[c] = Len(full)]_vars

\* The same statement for the terms that hold no LIKE metacharacter.
C5_PlainTermsSlice ==
  [][\A c \in Clients : \A i \in 1..MaxInflight :
       (/\ Searchable(page[c])
        /\ ReadResolve(c, i, FALSE)
        /\ \A j \in 1..Len(reads[c][i].term) : reads[c][i].term[j] \notin {"_", "%"}) =>
         LET r == reads[c][i]
             full == SelectSeq(Reverse(TableOf(page[c])),
                               LAMBDA x : ContainsTerm(page[c], x, r.term))
         IN /\ Len(rows'[c]) <= ITEMS_PER_PAGE
            /\ rows'[c] = SliceOf(full, r.page)
            /\ totalCount'[c] = Len(full)]_vars

\* The fields each page's form marks as required.
RequiredFields(k) ==
  CASE k = "Courses" -> {"course_code", "title"}
    [] k = "Students" -> {"student_id", "first_name", "last_name", "email"}
    [] k = "StudentsSimple" -> {"student_id", "first_name", "last_name", "email",
                                "enrollment_date"}
    [] OTHER -> {"student_id", "course_id"}

HasEmptyRequired(k, d) ==
  \E f \in RequiredFields(k) : d[f] = (IF IsEnrollmentKind(k) THEN NoId ELSE <<>>)

\* C6: on every page, the submit handler run on a draft with an empty required
\* field sends no insert or update and leaves the stored records unchanged.
C6_EmptyRequiredRejected ==
  [][\A c \in Clients :
       (page[c] \in Kinds /\ HasEmptyRequired(page[c], formData[c]) /\ HandleSubmit(c)) =>
         /\ writes'[c] = writes[c]
         /\ UNCHANGED <<students, courses, enrollments>>]_vars

\* The same statement for the pages other than the simplified Student Registry.
C6_ValidatingPagesReject ==
  [][\A c \in Clients :
       (/\ page[c] \in Kinds \ {"StudentsSimple"}
        /\ HasEmptyRequired(page[c], formData[c])
        /\ HandleSubmit(c)) =>
         /\ writes'[c] = writes[c]
         /\ UNCHANGED <<students, courses, enrollments>>]_vars

\* The constraints of the Course Catalog's and the paginated Student Registry's
\* schema in declaration order, each with the message shown when it is the first
\* one violated. Optional texts count as empty when absent.
SchemaRules(k, d) ==
  IF k = "Courses"
  THEN <<[ok |-> Len(d.course_code) >= 1, msg |-> "Course code is required"],
         [ok |-> Len(d.course_code) <= 20,
          msg |-> "String must contain at most 20 character(s)"],
         [ok |-> Len(d.title) >= 1, msg |-> "Title is required"],
         [ok |-> Len(d.title) <= 100,
          msg |-> "String must contain at most 100 character(s)"],
         [ok |-> Len(OrEmpty(d.description)) <= 500,
          msg |-> "String must contain at most 500 character(s)"],
         [ok |-> d.credits >= 1, msg |-> "Number must be greater than or equal to 1"],
         [ok |-> d.credits <= 12, msg |-> "Number must be less than or equal to 12"],
         [ok |-> Len(OrEmpty(d.department)) <= 50,
          msg |-> "String must contain at most 50 character(s)"],
         [ok |-> d.max_capacity >= 1, msg |-> "Number must be greater than or equal to 1"],
         [ok |-> d.max_capacity <= 500,
          msg |-> "Number must be less than or equal to 500"],
         [ok |-> d.status \in {"active", "inactive"}, msg |-> "Invalid enum value"]>>
  ELSE <<[ok |-> Len(d.student_id) >= 1, msg |-> "Student ID is required"],
         [ok |-> Len(d.student_id) <= 20,
          msg |-> "String must contain at most 20 character(s)"],
         [ok |-> Len(d.first_name) >= 1, msg |-> "First name is required"],
         [ok |-> Len(d.first_name) <= 50,
          msg |-> "String must contain at most 50 character(s)"],
         [ok |-> Len(d.last_name) >= 1, msg |-> "Last name is required"],
         [ok |-> Len(d.last_name) <= 50,
          msg |-> "String must contain at most 50 character(s)"],
         [ok |-> IsEmail(d.email), msg |-> "Invalid email address"],
         [ok |-> Len(OrEmpty(d.phone)) <= 20,
          msg |-> "String must contain at most 20 character(s)"],
         [ok |-> Len(OrEmpty(d.address)) <= 200,
          msg |-> "String must contain at most 200 character(s)"],
         [ok |-> d.status \in {"active", "inactive", "graduated"},
          msg |-> "Invalid enum value"]>>

Violated(k, d) == {n \in 1..Len(SchemaRules(k, d)) : ~SchemaRules(k, d)[n].ok}

FirstViolated(k, d) == CHOOSE n \in Violated(k, d) : \A m \in Violated(k, d) : n <= m

OptionalFields(k) ==
  CASE k = "Courses" -> {"description", "department"}
    [] k = "Students" -> {"phone", "date_of_birth", "address"}
    [] k = "StudentsSimple" -> {}
    [] OTHER -> {"grade"}

NoEmptyOptional(k, tbl) ==
  \A n \in 1..Len(tbl) : \A f \in OptionalFields(k) : tbl[n][f] # <<>>

\* C9: every insert or update a form sends carries null for each optional text
\* field that is empty in the draft and the draft's value otherwise; no write in
\* flight and no stored record holds an empty string in an optional field.
C9_EmptyOptionalSentAsNull ==
  [][\A c \in Clients :
       page[c] \in Kinds =>
         /\ (HandleSubmit(c) /\ writes'[c] # writes[c]) =>
              \A f \in OptionalFields(page[c]) :
                writes'[c][Len(writes'[c])].data[f] =
                  (IF formData[c][f] = <<>> THEN Null ELSE formData[c][f])
         /\ \A i \in 1..Len(writes'[c]) :
              writes'[c][i].op # "delete" =>
                \A f \in OptionalFields(page[c]) : writes'[c][i].data[f] # <<>>
         /\ NoEmptyOptional(page[c], TableOf(page[c])')]_vars

\* C9 witness: a course created from a draft with an empty description and an
\* empty department is stored with both absent.
C9_Witness ==
  \E c \in Clients :
    /\ page[c] = "Courses"
    /\ toast[c] = Toast("Success", "Course created successfully")
    /\ Len(courses) = 3
    /\ courses[3].description = Null
    /\ courses[3].department = Null

\* C10: a create or update the Gateway has acknowledged closes the form, resets
\* the draft to its defaults with no record being edited and issues the list
\* read, all in the step that handles the response; the submit step itself, a
\* rejected write and a lost request issue no read and leave the form as it is.
C10_RefreshAfterAcknowledgement ==
  [][\A c \in Clients :
       /\ HandleSubmit(c) => UNCHANGED <<reads, form>>
       /\ \A i \in 1..MaxWrites : \A lost \in BOOLEAN :
            (WriteResolve(c, i, lost) /\ writes[c][i].op # "delete") =>
              IF lost \/ IsError(GatewayWrite(page[c], writes[c][i]).error)
              THEN UNCHANGED <<reads, form>>
              ELSE /\ ~dialogOpen'[c]
                   /\ formData'[c] = DefaultForm(page[c])
                   /\ editing'[c] = NoRow
                   /\ reads'[c] = Append(reads[c], Request(writes[c][i].page,
                                                           writes[c][i].term))]_vars

\* C10 witness: a create or an update was acknowledged; the form is
\* closed and reset, and the list read is in flight.
C10_Witness ==
  \E c \in Clients :
    /\ page[c] \in Kinds
    /\ toast[c].title = "Success"
    /\ edits[c] > 0
    /\ ~dialogOpen[c]
    /\ formData[c] = DefaultForm(page[c])
    /\ editing[c] = NoRow
    /\ reads[c] = <<Request(1, <<>>)>>
    /\ writes[c] = <<>>

\* The record a successful insert w stores, and the result of re-listing for the
\* term and page of w right after it.
CreatedRecord(w) == WithId(w.data, nextId)

Relisted(c, w) == ListQuery(page[c], TableOf(page[c])', w.page, w.term).data

Acknowledged(c, i) ==
  /\ WriteResolve(c, i, FALSE)
  /\ ~IsError(GatewayWrite(page[c], writes[c][i]).error)

PairTaken(d) ==
  \E n \in 1..Len(enrollments) :
    /\ enrollments[n].student_id = d.student_id
    /\ enrollments[n].course_id = d.course_id

\* C1: in both Enrollment Linkers, when the Gateway answers a create whose
\* (student, course) pair already has an enrollment, the answer is the 23505
\* rejection, the message shown is "Student is already enrolled in this
\* course" and the enrollments stored are the same as before.
C1_DuplicateEnrollmentMessage ==
  [][\A c \in Clients : \A i \in 1..MaxWrites :
       (/\ IsEnrollmentKind(page[c])
        /\ WriteResolve(c, i, FALSE)
        /\ writes[c][i].op = "insert"
        /\ PairTaken(writes[c][i].data)) =>
         /\ GatewayWrite(page[c], writes[c][i]).error.code = "23505"
         /\ toast'[c] = Toast("Error", "Student is already enrolled in this course")
         /\ enrollments' = enrollments]_vars

\* C1 witness: a client of each Enrollment Linker variant has been answered the
\* duplicate message, and the one enrollment is all that is stored.
C1_Witness ==
  /\ \E c \in Clients :
       /\ page[c] = "Enrollments"
       /\ toast[c] = Toast("Error", "Student is already enrolled in this course")
  /\ \E c \in Clients :
       /\ page[c] = "EnrollmentsSimple"
       /\ toast[c] = Toast("Error", "Student is already enrolled in this course")
  /\ enrollments = <<SeedEnrollment(1, 2, 2)>>

\* C2: the Gateway never holds two enrollments with the same (student, course)
\* pair, whatever creates, updates and deletes the clients interleave.
C2_EnrollmentPairUnique ==
  \A m, n \in 1..Len(enrollments) :
    (/\ enrollments[m].student_id = enrollments[n].student_id
     /\ enrollments[m].course_id = enrollments[n].course_id) => m = n

\* C2 witness: two clients raced to create the same new pair; one was
\* acknowledged and the other was answered the duplicate message.
C2_Witness ==
  \E c, d \in Clients :
    /\ c # d
    /\ toast[c] = Toast("Success", "Enrollment created")
    /\ toast[d] = Toast("Error", "Student is already enrolled in this course")
    /\ Len(enrollments) = 2
    /\ enrollments[2].student_id = 2
    /\ enrollments[2].course_id = 1

\* C3: every stored enrollment references a stored student and a stored course,
\* and the step in which a delete of a student or a course is acknowledged
\* leaves no enrollment that references the deleted record.
C3_DeleteCascades ==
  [][/\ \A n \in 1..Len(enrollments') :
          /\ enrollments'[n].student_id \in Ids(students')
          /\ enrollments'[n].course_id \in Ids(courses')
     /\ \A c \in Clients : \A i \in 1..MaxWrites :
          (WriteResolve(c, i, FALSE) /\ writes[c][i].op = "delete") =>
            /\ IsStudentKind(page[c]) =>
                 /\ writes[c][i].id \notin Ids(students')
                 /\ \A n \in 1..Len(enrollments') :
                      enrollments'[n].student_id # writes[c][i].id
            /\ page[c] = "Courses" =>
                 /\ writes[c][i].id \notin Ids(courses')
                 /\ \A n \in 1..Len(enrollments') :
                      enrollments'[n].course_id # writes[c][i].id]_vars

\* C3 witness: the student who had the one enrollment was deleted and the
\* enrollment went with the student.
C3_Witness ==
  \E c \in Clients :
    /\ IsStudentKind(page[c])
    /\ toast[c] = Toast("Success", "Student deleted successfully")
    /\ 2 \notin Ids(students)
    /\ enrollments = <<>>

\* The delete requests client c has in flight.
DeletesOf(w) == SelectSeq(w, LAMBDA x : x.op = "delete")

\* C11: a declined confirmation sends no delete, issues no list read and leaves
\* the records as they are; a delete request appears only in a step in which
\* the user confirmed it; and an acknowledged delete re-issues the list read.
C11_DeleteNeedsConfirmation ==
  [][\A c \in Clients :
       /\ \A i \in 1..MaxPick :
            HandleDelete(c, i, FALSE) =>
              /\ writes' = writes
              /\ reads' = reads
              /\ UNCHANGED <<students, courses, enrollments>>
       /\ DeletesOf(writes'[c]) # DeletesOf(writes[c]) =>
            \/ \E i \in 1..MaxPick : HandleDelete(c, i, TRUE)
            \/ \E i \in 1..MaxWrites : \E lost \in BOOLEAN : WriteResolve(c, i, lost)
       /\ \A i \in 1..MaxWrites :
            (Acknowledged(c, i) /\ writes[c][i].op = "delete") =>
              reads'[c] = Append(reads[c], Request(writes[c][i].page,
                                                   writes[c][i].term))]_vars

\* C11 witness: a confirmed delete of the listed enrollment was acknowledged
\* and the list read that follows it is in flight.
C11_Witness ==
  \E c \in Clients :
    /\ IsEnrollmentKind(page[c])
    /\ toast[c] = Toast("Success", "Enrollment deleted")
    /\ enrollments = <<>>
    /\ reads[c] = <<Request(1, <<>>)>>
    /\ loading[c]

\* What the Gateway (or the network) answers write i of client c.
AnswerTo(c, i, lost) ==
  IF lost THEN NetworkError ELSE GatewayWrite(page[c], writes[c][i]).error

\* C12: the one rejection with a message of its own is the uniqueness violation
\* of an enrollment create; every other rejected write, on any page and with
\* any code, shows the Gateway's message as it came.
C12_OneBespokeMessage ==
  [][\A c \in Clients : \A i \in 1..MaxWrites : \A lost \in BOOLEAN :
       (WriteResolve(c, i, lost) /\ IsError(AnswerTo(c, i, lost))) =>
         toast'[c].description =
           (IF /\ IsEnrollmentKind(page[c])
               /\ writes[c][i].op = "insert"
               /\ AnswerTo(c, i, lost).code = "23505"
            THEN "Student is already enrolled in this course"
            ELSE AnswerTo(c, i, lost).message)]_vars

\* The same statement for the pages other than the simplified Student Registry.
C12_OtherPagesVerbatim ==
  [][\A c \in Clients : \A i \in 1..MaxWrites : \A lost \in BOOLEAN :
       (/\ page[c] # "StudentsSimple"
        /\ WriteResolve(c, i, lost)
        /\ IsError(AnswerTo(c, i, lost))) =>
         toast'[c].description =
           (IF /\ IsEnrollmentKind(page[c])
               /\ writes[c][i].op = "insert"
               /\ AnswerTo(c, i, lost).code = "23505"
            THEN "Student is already enrolled in this course"
            ELSE AnswerTo(c, i, lost).message)]_vars

\* C13: a list read that fails leaves the displayed rows and the stored total
\* count as the last successful read set them, and clears the loading flag.
C13_FailedReadKeepsList ==
  [][\A c \in Clients : \A i \in 1..MaxInflight :
       ReadResolve(c, i, TRUE) =>
         /\ rows'[c] = rows[c]
         /\ totalCount'[c] = totalCount[c]
         /\ ~loading'[c]]_vars

\* C13 witness: the read for the term "z" has failed; the list still shows the
\* rows and the count of the read before it, and nothing is loading.
C13_Witness ==
  \E c \in Clients :
    /\ Searchable(page[c])
    /\ searchTerm[c] = <<"z">>
    /\ toast[c] = Toast("Error", "Failed to fetch")
    /\ rows[c] # <<>>
    /\ totalCount[c] = MaxRows
    /\ reads[c] = <<>>
    /\ ~loading[c]

AllResolved(c) == \A q \in Queries : countQueries[c][q].state = "done"

\* C14: when the Dashboard shows its figures, the figure of each failed query
\* is 0 and the figure of every other query is the count that query returned,
\* whichever and however many failed; and the loading flag is cleared.
C14_FailedCountIsZero ==
  [][\A c \in Clients :
       (page[c] = "Dashboard" /\ AllResolved(c) /\ loading[c] /\ ~loading'[c]) =>
         \A q \in Queries :
           stats'[c][q] = (IF countQueries[c][q].count = <<>>
                           THEN 0 ELSE countQueries[c][q].count[1])]_vars

\* C14 witness: the count of all students failed and the three others did
\* not; the figures are 0 for the students and the counts for the others.
C14_Witness ==
  \E c \in Clients :
    /\ page[c] = "Dashboard"
    /\ ~loading[c]
    /\ countQueries[c]["totalStudents"].count = <<>>
    /\ stats[c]["totalStudents"] = 0
    /\ countQueries[c]["activeStudents"].count = <<2>>
    /\ stats[c]["activeStudents"] = 2
    /\ countQueries[c]["totalCourses"].count = <<2>>
    /\ stats[c]["totalCourses"] = 2
    /\ countQueries[c]["totalEnrollments"].count = <<1>>
    /\ stats[c]["totalEnrollments"] = 1

\* C15: the four count queries are sent in one step; the figures change in one
\* step only, taken when all four have resolved, in which all four figures are
\* set; so while the group is partly resolved the figures are the initial ones.
C15_FiguresSetOnceAllResolved ==
  [][\A c \in Clients :
       page[c] = "Dashboard" =>
         /\ (\E q \in Queries : countQueries[c][q] = Idle /\ countQueries'[c][q] # Idle) =>
              \A q \in Queries : countQueries'[c][q] = InFlight
         /\ stats'[c] # stats[c] =>
              /\ AllResolved(c)
              /\ countQueries'[c] = countQueries[c]
              /\ \A q \in Queries : stats'[c][q] = OrZero(countQueries[c][q].count)
         /\ ~AllResolved(c)' => stats'[c] = NoStats]_vars

\* A partly resolved group: the queries resolved in an order other than the one they were
\* sent in (the last one first, while the first is still in flight), and the
\* figures are still the initial ones although a count has arrived.
C15_PartlyResolved ==
  \E c \in Clients :
    /\ page[c] = "Dashboard"
    /\ countQueries[c]["totalEnrollments"] = Resolved(<<1>>)
    /\ countQueries[c]["totalCourses"] = Resolved(<<2>>)
    /\ countQueries[c]["totalStudents"] = InFlight
    /\ stats[c] = NoStats
    /\ loading[c]

\* C15 witness: the whole group has resolved, every query with a count above
\* zero, and the one step that follows has set the four figures to the counts.
C15_Witness ==
  \E c \in Clients :
    /\ page[c] = "Dashboard"
    /\ ~loading[c]
    /\ \A q \in Queries : countQueries[c][q].count # <<>>
    /\ \A q \in Queries : stats[c][q] = countQueries[c][q].count[1]
    /\ \A q \in Queries : stats[c][q] > 0

SamePair(a, b) == a.student_id = b.student_id /\ a.course_id = b.course_id

\* C16: in both Enrollment Linkers, while a record is selected for editing the
\* draft keeps that record's student and course; every update request carries
\* the student and course of the record it was made for; and no step changes
\* the (student, course) pair of an enrollment the Gateway keeps.
C16_EnrollmentPairImmutable ==
  [][/\ \A c \in Clients :
          IsEnrollmentKind(page[c]) =>
            /\ editing'[c] # NoRow => SamePair(formData'[c], editing'[c])
            /\ (HandleSubmit(c) /\ editing[c] # NoRow /\ writes'[c] # writes[c]) =>
                 /\ writes'[c][Len(writes'[c])].op = "update"
                 /\ writes'[c][Len(writes'[c])].id = editing[c].id
                 /\ SamePair(writes'[c][Len(writes'[c])].data, editing[c])
            /\ \A i \in 1..Len(writes'[c]) :
                 (writes'[c][i].op = "update" /\ writes'[c][i].id \in Ids(enrollments')) =>
                   SamePair(writes'[c][i].data, RowById(enrollments', writes'[c][i].id))
     /\ \A m \in 1..Len(enrollments) : \A n \in 1..Len(enrollments') :
          enrollments[m].id = enrollments'[n].id =>
            SamePair(enrollments[m], enrollments'[n])]_vars

\* C16 witness: the listed enrollment was edited and the update acknowledged;
\* the row has the pair it had.
C16_Witness ==
  \E c \in Clients :
    /\ IsEnrollmentKind(page[c])
    /\ toast[c] = Toast("Success", "Enrollment updated")
    /\ enrollments # <<>>
    /\ enrollments[1] = SeedEnrollment(1, 2, 2)

\* C17: in the paginated views the total page count is the ceiling of the total
\* count over ITEMS_PER_PAGE; the previous control does nothing on page 1 and the next
\* control nothing on the last page; and a use of either control leaves the
\* current page between 1 and the total page count.
C17_ControlsStayInRange ==
  [][\A c \in Clients :
       (page[c] \in Kinds /\ Paged(page[c])) =>
         /\ TotalPages(totalCount[c]) * ITEMS_PER_PAGE >= totalCount[c]
         /\ (TotalPages(totalCount[c]) - 1) * ITEMS_PER_PAGE < totalCount[c]
              \/ totalCount[c] = 0
         /\ PrevPage(c) => currentPage[c] # 1
         /\ NextPage(c) => currentPage[c] # TotalPages(totalCount[c])
         /\ (PrevPage(c) \/ NextPage(c)) =>
              /\ currentPage'[c] >= 1
              /\ currentPage'[c] <= TotalPages(totalCount[c])]_vars

\* The same statement for the uses of a control made while the current page is
\* within the total page count.
C17_InRangeStaysInRange ==
  [][\A c \in Clients :
       (/\ page[c] \in Kinds
        /\ Paged(page[c])
        /\ currentPage[c] <= TotalPages(totalCount[c])
        /\ PrevPage(c) \/ NextPage(c)) =>
         /\ currentPage'[c] >= 1
         /\ currentPage'[c] <= TotalPages(totalCount[c])]_vars

Authenticated(uid) == uid # NoUser

Untouched == UNCHANGED <<students, courses, enrollments, nextId>>

Written(out) ==
  <<students', courses', enrollments'>> = <<out.students, out.courses, out.enrollments>>

\* C18: a select, insert, update or delete on students, courses or enrollments
\* is let through exactly when the caller has an authenticated identity,
\* whatever role the caller holds: with one, a select sees every row and a
\* write has the effect the table's constraints give it; without one, a select
\* sees no row, an insert is refused by the policy and an update or a delete
\* touches no row.
C18_AccessIffAuthenticated ==
  [][\A uid \in Callers : \A role \in Roles : \A k \in Tables :
       /\ CallSelect(uid, role, k) =>
            answer'.visible = IF Authenticated(uid) THEN Len(TableOf(k)) ELSE 0
       /\ \A data \in FreshRows(k) :
            CallInsert(uid, role, k, data) =>
              IF Authenticated(uid)
              THEN /\ Written(GatewayInsert(k, data))
                   /\ answer'.error = GatewayInsert(k, data).error
              ELSE /\ Untouched
                   /\ answer'.error.code = RLS_VIOLATION
       /\ \A id \in 1..MaxPick + 1 : \A data \in Patches(k) :
            CallUpdate(uid, role, k, id, data) =>
              IF Authenticated(uid)
              THEN Written(GatewayUpdate(k, id, data))
              ELSE Untouched /\ answer'.visible = 0
       /\ \A id \in 1..MaxPick + 1 :
            CallDelete(uid, role, k, id) =>
              IF Authenticated(uid)
              THEN Written(GatewayDelete(k, id))
              ELSE Untouched /\ answer'.visible = 0
    ]_vars

\* A caller with a session and no role has added a course.
C18_Witness ==
  /\ answer.cmd = "insert" /\ answer.uid # NoUser /\ answer.role = "none"
  /\ ~IsError(answer.error)
  /\ Len(courses) = 3

\* After a course was added, a caller without a session is refused by the policy.
C18_AnonymousRefused ==
  /\ answer.cmd = "insert" /\ answer.uid = NoUser
  /\ answer.error.code = RLS_VIOLATION
  /\ Len(courses) = 3

\* C19: a failed Gateway call is followed by no request the component makes on
\* its own and leaves the page usable: a rejected or lost create or update
\* leaves the dialog, the draft and the edit target as they were (an open
\* dialog stays open on its draft) and issues no list read; a failed delete issues no list read; a failed list
\* read issues nothing and clears the loading indicator when it returns. In
\* each case the failed request is the only one that leaves the client's
\* in-flight requests, and the tables are as they were.
C19_FailureLeavesPageUsable ==
  [][\A c \in Clients :
       /\ \A i \in 1..MaxWrites : \A lost \in BOOLEAN :
            (WriteResolve(c, i, lost) /\ IsError(AnswerTo(c, i, lost))) =>
              /\ reads'[c] = reads[c]
              /\ writes'[c] = Remove(writes[c], i)
              /\ loading'[c] = loading[c]
              /\ dialogOpen'[c] = dialogOpen[c]
              /\ formData'[c] = formData[c]
              /\ editing'[c] = editing[c]
              /\ Untouched
       /\ \A i \in 1..MaxInflight :
            ReadResolve(c, i, TRUE) =>
              /\ reads'[c] = Remove(reads[c], i)
              /\ writes'[c] = writes[c]
              /\ ~loading'[c]
              /\ UNCHANGED form
    ]_vars

\* A create was rejected as a duplicate: the dialog is open on the draft that
\* was submitted and no request is in flight.
C19_Witness ==
  \E c \in Clients :
    /\ toast[c] = Toast("Error", DUPLICATE_ENROLLMENT)
    /\ dialogOpen[c]
    /\ editing[c] = NoRow
    /\ formData[c] # DefaultForm(page[c])
    /\ reads[c] = <<>>
    /\ writes[c] = <<>>
    /\ ~loading[c]

\* An update of the record being edited was lost on the way: the dialog is
\* still open on that record.
C19_FailedUpdateKeepsTarget ==
  \E c \in Clients :
    /\ toast[c] = Toast("Error", NetworkError.message)
    /\ dialogOpen[c]
    /\ editing[c] # NoRow
    /\ reads[c] = <<>>
    /\ writes[c] = <<>>

\* What the Gateway holds for page pg and term of client c's list.
ResultFor(c, pg, term) == ListQuery(page[c], TableOf(page[c]), pg, term)

Shows(c, pg, term) ==
  /\ rows[c] = ResultFor(c, pg, term).data
  /\ totalCount[c] = ResultFor(c, pg, term).count

\* C20: a list read that returns is applied whether or not the page and the
\* term it was issued for are still the current ones: the rows and the total
\* count become those of the read's own page and term.
C20_EveryReadApplied ==
  [][\A c \in Clients : \A i \in 1..MaxInflight :
       ReadResolve(c, i, FALSE) =>
         /\ rows'[c] = ResultFor(c, reads[c][i].page, reads[c][i].term).data
         /\ totalCount'[c] = ResultFor(c, reads[c][i].page, reads[c][i].term).count
    ]_vars

\* No read is in flight, the last one to return succeeded, and the list shows
\* the rows and the count of a page and term other than the current ones,
\* which differ from those of the current ones.
C20_Witness ==
  \E c \in Clients :
    /\ page[c] \in Kinds
    /\ reads[c] = <<>>
    /\ toast[c] = NoToast
    /\ rows[c] # <<>>
    /\ ~Shows(c, currentPage[c], searchTerm[c])
    /\ \E pg \in 1..TotalPages(Len(TableOf(page[c]))) : \E term \in Terms :
         /\ <<pg, term>> # <<currentPage[c], searchTerm[c]>>
         /\ Shows(c, pg, term)

\* C21: the simplified Student Registry reads the whole student table, newest
\* first, and only on mount and after a write that succeeded: a change of the
\* search term issues no read and leaves the fetched rows alone; and the rows
\* the table shows are the fetched records, in fetched order, one of whose
\* first name, last name, student code or e-mail contains the term without
\* regard to case.
C21_ClientSideFilter ==
  [][\A c \in Clients :
       page[c] = "StudentsSimple" =>
         /\ (\E s \in FilterTerms : SetFilter(c, s)) =>
              /\ reads'[c] = reads[c]
              /\ rows'[c] = rows[c]
              /\ loading'[c] = loading[c]
         /\ Len(reads'[c]) > Len(reads[c]) =>
              \E i \in 1..MaxWrites :
                WriteResolve(c, i, FALSE) /\ ~IsError(AnswerTo(c, i, FALSE))
         /\ \A i \in 1..MaxWrites :
              (WriteResolve(c, i, FALSE) /\ ~IsError(AnswerTo(c, i, FALSE))) =>
                Len(reads'[c]) = Len(reads[c]) + 1
         /\ \A i \in 1..MaxInflight :
              ReadResolve(c, i, FALSE) => rows'[c] = Reverse(students)
         /\ filteredStudents(rows'[c], searchTerm'[c]) =
              SelectSeq(rows'[c],
                        LAMBDA r : ContainsTerm("StudentsSimple", r, searchTerm'[c]))
    ]_vars

\* Three students are fetched, the term "a" is typed with nothing in flight,
\* and the table shows the two of them with an "A" or an "a" in a name.
C21_Witness ==
  \E c \in Clients :
    /\ page[c] = "StudentsSimple"
    /\ reads[c] = <<>>
    /\ searchTerm[c] = <<"a">>
    /\ Len(rows[c]) = 3
    /\ Len(filteredStudents(rows[c], searchTerm[c])) = 2

AllActive(ids, tbl) == \A id \in ids : id \in Ids(tbl) /\ RowById(tbl, id).status = "active"

ListUntouched(c) ==
  /\ rows'[c] = rows[c]
  /\ totalCount'[c] = totalCount[c]
  /\ loading'[c] = loading[c]
  /\ reads'[c] = reads[c]

\* C22 as amended: each of the two option lists is replaced by the active
\* records of its table when its read is answered with data, an empty list
\* included, and is left as it was when its read fails; neither case touches
\* the enrollment list, its count, its loading indicator or its reads.
C22_OptionsAreActiveRecords ==
  [][\A c \in Clients : \A so, co \in BOOLEAN :
       OptionsResolve(c, so, co) =>
         /\ studentOpts'[c] = (IF so THEN ActiveIds(students) ELSE studentOpts[c])
         /\ courseOpts'[c] = (IF co THEN ActiveIds(courses) ELSE courseOpts[c])
         /\ so => AllActive(studentOpts'[c], students)
         /\ co => AllActive(courseOpts'[c], courses)
         /\ ListUntouched(c)
    ]_vars

\* C22 as stated: an options read that fails or that is answered with no
\* record leaves the previous option list as it was.
C22_EmptyDataKeepsOptions ==
  [][\A c \in Clients : \A so, co \in BOOLEAN :
       OptionsResolve(c, so, co) =>
         /\ (~so \/ ActiveIds(students) = {}) => studentOpts'[c] = studentOpts[c]
         /\ (~co \/ ActiveIds(courses) = {}) => courseOpts'[c] = courseOpts[c]
    ]_vars

\* The one course was deleted by the other client; the options read of the
\* next page was answered with the active students and no course, and the
\* course list is empty.
C22_Witness ==
  \E c \in Clients :
    /\ page[c] = "Enrollments"
    /\ optReads[c] = 0
    /\ courses = <<>>
    /\ courseOpts[c] = {}
    /\ studentOpts[c] = ActiveIds(students)
    /\ studentOpts[c] # {}

AtRest(c) == reads[c] = <<>> /\ writes[c] = <<>>

\* C23: on a paginated page with no read and no write in flight, the current
\* page is at least 1 and at most the total page count (or 1 when the list is
\* empty).
C23_RestsOnPageInRange ==
  \A c \in Clients :
    (page[c] \in Kinds /\ Paged(page[c]) /\ AtRest(c)) =>
      /\ currentPage[c] >= 1
      /\ currentPage[c] <= (IF TotalPages(totalCount[c]) > 1
                            THEN TotalPages(totalCount[c]) ELSE 1)

\* C24: the list read issued when a create, an update or a delete has
\* succeeded asks for the page number and the search term that are current at
\* that moment.
C24_RereadIsForCurrentPageAndTerm ==
  [][\A c \in Clients : \A i \in 1..MaxWrites :
       (WriteResolve(c, i, FALSE) /\ ~IsError(AnswerTo(c, i, FALSE))) =>
         reads'[c] = Append(reads[c], Request(currentPage'[c], searchTerm'[c]))
    ]_vars

\* C25: on every list page the loading indicator is on while a list read is
\* awaiting the Gateway's response.
C25_LoadingWhileReading ==
  \A c \in Clients :
    (page[c] \in Kinds /\ reads[c] # <<>>) => loading[c]

\* C26: at most one write of a client's form is awaiting the Gateway's
\* response at any time.
C26_OneWriteInFlight ==
  \A c \in Clients : Len(writes[c]) <= 1

\* C26, the consequence: the Gateway is never asked twice to insert the same
\* draft.
C26_OneInsertPerDraft ==
  \A c \in Clients : \A i, j \in 1..Len(writes[c]) :
    (i # j /\ writes[c][i].op = "insert") => writes[c][i] # writes[c][j]

\* The columns of update write w of client c that its user left as the form
\* loaded them from the record being edited.
LeftAlone(c, w) ==
  {f \in DOMAIN w.data : w.data[f] = Payload(page[c], FormFromRow(page[c], editing[c]))[f]}

\* The table of page k after the step.
TableAfter(k) ==
  CASE k = "Courses" -> courses'
    [] IsStudentKind(k) -> students'
    [] OTHER -> enrollments'

\* C27: an update that succeeds changes no column of the stored record that
\* the submitting user left as it was loaded, so that two users' changes of
\* different fields of one record are both stored.
C27_UpdateKeepsUnchangedFields ==
  [][\A c \in Clients : \A i \in 1..MaxWrites :
       (/\ WriteResolve(c, i, FALSE)
        /\ ~IsError(AnswerTo(c, i, FALSE))
        /\ writes[c][i].op = "update"
        /\ writes[c][i].id \in Ids(TableOf(page[c]))) =>
         \A f \in LeftAlone(c, writes[c][i]) :
           RowById(TableAfter(page[c]), writes[c][i].id)[f] =
             RowById(TableOf(page[c]), writes[c][i].id)[f]
    ]_vars

\* C28: an update or a delete is reported as a success only when the record
\* it names was in its table when the Gateway applied the write.
C28_SuccessMeansRecordExisted ==
  [][\A c \in Clients : \A i \in 1..MaxWrites :
       (/\ WriteResolve(c, i, FALSE)
        /\ writes[c][i].op \in {"update", "delete"}
        /\ toast'[c].title = "Success") =>
         writes[c][i].id \in Ids(TableOf(page[c]))
    ]_vars

\* C29: the Dashboard never shows more active students than students.
C29_ActiveAtMostTotal ==
  \A c \in Clients :
    page[c] = "Dashboard" => stats[c]["activeStudents"] <= stats[c]["totalStudents"]

\* C29 without failed queries: the same, for figures none of whose count
\* queries failed.
C29_ActiveAtMostTotalWhenAnswered ==
  \A c \in Clients :
    (/\ page[c] = "Dashboard"
     /\ \A q \in Queries : countQueries[c][q].state = "done" => countQueries[c][q].count # <<>>) =>
      stats[c]["activeStudents"] <= stats[c]["totalStudents"]

\* C30: the simplified Student Registry shows 'Student ID already exists' only
\* for a create whose student code is the code of a student already stored.
C30_MessageMeansDuplicateCode ==
  [][\A c \in Clients : \A i \in 1..MaxWrites : \A lost \in BOOLEAN :
       (/\ WriteResolve(c, i, lost)
        /\ page[c] = "StudentsSimple"
        /\ toast'[c].description = DUPLICATE_STUDENT) =>
         /\ writes[c][i].op = "insert"
         /\ \E j \in 1..Len(students) :
              students[j].student_id = writes[c][i].data.student_id
    ]_vars

====
